---------------------------- MODULE Spec2Model ----------------------------
(***************************************************************************)
(* A model of vpic-api: the response normalisation and typed               *)
(* deserialisation pipeline (transforms.py, client_base.py, utils.py,      *)
(* typed_client.py, models.py) and the error classifier (exceptions.py).   *)
(*                                                                         *)
(* Strings are sequences of one-character strings, so that the regular     *)
(* expression, lower(), replace() and startswith() of the source act on    *)
(* characters.  A JSON value is a record [t, s, items]:                    *)
(*   t = "scalar": s is the text of a string or number                     *)
(*   t = "none"  : Python None / JSON null                                 *)
(*   t = "list"  : items is the sequence of element values                 *)
(*   t = "dict"  : items is the sequence of entries [k, v] in insertion    *)
(*                 order, keys pairwise distinct                           *)
(*   t = "raise" : the call raised; s names the exception class; a        *)
(*                 VPICError also has message, detail and response         *)
(*   t = "record": a dataclass instance; s names the class, items are its  *)
(*                 attributes [k, v] in declaration order                  *)
(***************************************************************************)
EXTENDS Integers, Sequences, FiniteSets, TLC

VARIABLES
    meta,                   \* TypedClient._meta["unknown"], "unset" before a TypedClient exists
    standardize_variables,  \* ClientBase.standardize_variables of the untyped Client
    http_calls,             \* HTTP requests the session issued for the call in op
    op,                     \* the operation that ran last
    arg,                    \* its input: an object, or the HTTP response it received
    ret                     \* what it returned, or the exception it raised

vars == <<meta, standardize_variables, http_calls, op, arg, ret>>

-----------------------------------------------------------------------------
(* Values *)

\* the sequence seq, its elements evaluated
Eager(seq) == seq \o <<>>

Scalar(text) == [t |-> "scalar", s |-> text, items |-> <<>>]
None == [t |-> "none", s |-> <<>>, items |-> <<>>]
List(xs) == [t |-> "list", s |-> <<>>, items |-> Eager(xs)]
Dict(es) == [t |-> "dict", s |-> <<>>, items |-> Eager(es)]
Raise(exc) == [t |-> "raise", s |-> exc, items |-> <<>>]
Record(cls, attrs) == [t |-> "record", s |-> cls, items |-> Eager(attrs)]
Entry(key, value) == [k |-> key, v |-> value]

IsRaise(x) == x.t = "raise"

\* F(x), with x evaluated once
Once(x, F(_)) == CHOOSE r \in {F(d) : d \in {x}} : TRUE

Keys(d) == {d.items[i].k : i \in 1..Len(d.items)}
HasKey(d, key) == \E i \in 1..Len(d.items) : d.items[i].k = key
\* d[key]; the caller checks HasKey first
GetItem(d, key) == d.items[CHOOSE i \in 1..Len(d.items) : d.items[i].k = key].v

\* a dict in which the first value inserted under a key is kept
DictFromPairs_first_wins(pairs) ==
    LET entries(ps) ==
            LET pos[c \in 0..Len(ps)] ==
                    IF c = 0 THEN <<>>
                    ELSE IF \A j \in 1..(c-1) : ps[j].k # ps[c].k
                         THEN Append(pos[c-1], ps[c])
                         ELSE pos[c-1]
            IN pos[Len(ps)]
    IN Once(Eager(pairs), entries)

\* The dict Python builds when the pairs ps are inserted in order: a key
\* keeps the position of its first insertion and the value of its last.
DictFromPairs(pairs) ==
    LET entries(ps) ==
            LET n == Len(ps)
                first == {i \in 1..n : \A j \in 1..(i-1) : ps[j].k # ps[i].k}
                last(i) == CHOOSE j \in i..n :
                              /\ ps[j].k = ps[i].k
                              /\ \A m \in (j+1)..n : ps[m].k # ps[i].k
                pos[c \in 0..n] == IF c = 0 THEN <<>>
                                   ELSE IF c \in first
                                        THEN Append(pos[c-1], Entry(ps[c].k, ps[last(c)].v))
                                        ELSE pos[c-1]
            IN pos[n]
    IN Once(Eager(pairs), entries)

\* del d[key]
DelItem(d, key) == Dict(SelectSeq(d.items, LAMBDA e : e.k # key))

\* d[key] = value
SetItem(d, key, value) == Dict(DictFromPairs(Append(d.items, Entry(key, value))))

\* Python's == on JSON values and records: dicts compare without regard to order
RECURSIVE ValueEq(_, _)
ValueEq(a, b) ==
    IF a.t # b.t THEN FALSE
    ELSE IF a.t = "dict" \/ a.t = "record"
    THEN /\ a.s = b.s
         /\ Len(a.items) = Len(b.items)
         /\ \A i \in 1..Len(a.items) :
               \E j \in 1..Len(b.items) :
                  /\ a.items[i].k = b.items[j].k
                  /\ ValueEq(a.items[i].v, b.items[j].v)
    ELSE IF a.t = "list"
    THEN /\ Len(a.items) = Len(b.items)
         /\ \A i \in 1..Len(a.items) : ValueEq(a.items[i], b.items[i])
    ELSE a.s = b.s

-----------------------------------------------------------------------------
(* str methods *)

UPPER == {"A","B","C","D","E","F","G","H","I","J","K","L","M",
          "N","O","P","Q","R","S","T","U","V","W","X","Y","Z"}

ToLower ==
    "A" :> "a" @@ "B" :> "b" @@ "C" :> "c" @@ "D" :> "d" @@ "E" :> "e" @@
    "F" :> "f" @@ "G" :> "g" @@ "H" :> "h" @@ "I" :> "i" @@ "J" :> "j" @@
    "K" :> "k" @@ "L" :> "l" @@ "M" :> "m" @@ "N" :> "n" @@ "O" :> "o" @@
    "P" :> "p" @@ "Q" :> "q" @@ "R" :> "r" @@ "S" :> "s" @@ "T" :> "t" @@
    "U" :> "u" @@ "V" :> "v" @@ "W" :> "w" @@ "X" :> "x" @@ "Y" :> "y" @@
    "Z" :> "z"

\* str.lower()
lower(str) == [i \in 1..Len(str) |-> IF str[i] \in UPPER THEN ToLower[str[i]] ELSE str[i]]

\* str.startswith(prefix)
startswith(str, prefix) ==
    /\ Len(str) >= Len(prefix)
    /\ SubSeq(str, 1, Len(prefix)) = prefix

\* does sub occur in str at position i
OccursAt(str, sub, i) ==
    /\ i + Len(sub) - 1 <= Len(str)
    /\ SubSeq(str, i, i + Len(sub) - 1) = sub

\* sub in str
contains(str, sub) == \E i \in 1..Len(str) : OccursAt(str, sub, i)

\* str.replace(old, new), old not empty: every non-overlapping occurrence,
\* scanning from the left
RECURSIVE replace_from(_, _, _, _)
replace_from(str, old, new, i) ==
    IF i > Len(str) THEN <<>>
    ELSE IF OccursAt(str, old, i)
         THEN new \o replace_from(str, old, new, i + Len(old))
         ELSE <<str[i]>> \o replace_from(str, old, new, i + 1)

replace(str, old, new) == replace_from(str, old, new, 1)

-----------------------------------------------------------------------------
(* transforms.py: standardize *)

transforms_STANDARD_VARIABLE_NAMES ==
    <<"I","D">> :> <<"I","d">> @@
    <<"G","C","W","R">> :> <<"G","C","W","R","F","r","o","m">> @@
    <<"G","C","W","R","_","t","o">> :> <<"G","C","W","R","T","o">> @@
    <<"G","V","W","R">> :> <<"G","V","W","R","F","r","o","m">> @@
    <<"G","V","W","R","_","t","o">> :> <<"G","V","W","R","T","o">> @@
    <<"M","a","k","e","_","I","D">> :> <<"M","a","k","e","I","d">> @@
    <<"M","a","k","e","I","D">> :> <<"M","a","k","e","I","d">> @@
    <<"M","a","k","e","_","N","a","m","e">> :> <<"M","a","k","e">> @@
    <<"M","a","k","e","N","a","m","e">> :> <<"M","a","k","e">> @@
    <<"M","f","r","_","C","o","m","m","o","n","N","a","m","e">> :> <<"M","a","n","u","f","a","c","t","u","r","e","r","C","o","m","m","o","n","N","a","m","e">> @@
    <<"M","f","r","_","I","D">> :> <<"M","a","n","u","f","a","c","t","u","r","e","r","I","d">> @@
    <<"M","f","r","_","N","a","m","e">> :> <<"M","a","n","u","f","a","c","t","u","r","e","r">> @@
    <<"M","a","n","u","f","a","c","t","u","r","e","r","N","a","m","e">> :> <<"M","a","n","u","f","a","c","t","u","r","e","r">> @@
    <<"M","f","r","I","d">> :> <<"M","a","n","u","f","a","c","t","u","r","e","r","I","d">> @@
    <<"M","f","r","N","a","m","e">> :> <<"M","a","n","u","f","a","c","t","u","r","e","r">> @@
    <<"M","o","d","e","l","_","I","D">> :> <<"M","o","d","e","l","I","d">> @@
    <<"M","o","d","e","l","_","N","a","m","e">> :> <<"M","o","d","e","l">> @@
    <<"M","o","d","e","l","N","a","m","e">> :> <<"M","o","d","e","l">> @@
    <<"M","o","d","e","l","I","D">> :> <<"M","o","d","e","l","I","d">> @@
    <<"V","e","h","i","c","l","e","T","y","p","e","N","a","m","e">> :> <<"V","e","h","i","c","l","e","T","y","p","e">>

\* GetOrKey with the entry for "MakeID" missing from the tables
GetOrKey_without_MakeID(table, key) ==
    IF key \in DOMAIN table /\ key # <<"M","a","k","e","I","D">> THEN table[key] ELSE key

\* GetOrKey that maps the canonical name "Make" on to "MakeName"
GetOrKey_chaining(table, key) ==
    IF key \in DOMAIN table THEN table[key]
    ELSE IF key = <<"M","a","k","e">> THEN <<"M","a","k","e","N","a","m","e">> ELSE key

\* dict.get(key, key)
GetOrKey(table, key) == IF key \in DOMAIN table THEN table[key] ELSE key

\* standardize that returns a list as it is
RECURSIVE standardize_skipping_lists(_)
standardize_skipping_lists(object) ==
    IF object.t = "dict"
    THEN Dict(DictFromPairs(
            [i \in 1..Len(object.items) |->
                Entry(GetOrKey(transforms_STANDARD_VARIABLE_NAMES, object.items[i].k),
                      standardize_skipping_lists(object.items[i].v))]))
    ELSE object

RECURSIVE standardize(_)
standardize(object) ==
    IF object.t = "dict"
    THEN Dict(DictFromPairs(
            [i \in 1..Len(object.items) |->
                Entry(GetOrKey(transforms_STANDARD_VARIABLE_NAMES, object.items[i].k),
                      standardize(object.items[i].v))]))
    ELSE IF object.t = "list"
    THEN List([i \in 1..Len(object.items) |-> standardize(object.items[i])])
    ELSE object

-----------------------------------------------------------------------------
(* client_base.py: the table and the method of the request path *)

client_base_STANDARD_VARIABLE_NAMES ==
    <<"I","D">> :> <<"I","d">> @@
    <<"M","a","k","e","_","I","D">> :> <<"M","a","k","e","I","d">> @@
    <<"M","a","k","e","_","N","a","m","e">> :> <<"M","a","k","e","N","a","m","e">> @@
    <<"M","a","k","e","I","D">> :> <<"M","a","k","e","I","d">> @@
    <<"M","f","r","_","C","o","m","m","o","n","N","a","m","e">> :> <<"M","a","n","u","f","a","c","t","u","r","e","r","C","o","m","m","o","n","N","a","m","e">> @@
    <<"M","f","r","_","I","D">> :> <<"M","a","n","u","f","a","c","t","u","r","e","r","I","d">> @@
    <<"M","f","r","_","N","a","m","e">> :> <<"M","a","n","u","f","a","c","t","u","r","e","r","N","a","m","e">> @@
    <<"M","f","r","I","d">> :> <<"M","a","n","u","f","a","c","t","u","r","e","r","I","d">> @@
    <<"M","f","r","N","a","m","e">> :> <<"M","a","n","u","f","a","c","t","u","r","e","r","N","a","m","e">> @@
    <<"M","o","d","e","l","_","I","D">> :> <<"M","o","d","e","l","I","d">> @@
    <<"M","o","d","e","l","_","N","a","m","e">> :> <<"M","o","d","e","l","N","a","m","e">> @@
    <<"M","o","d","e","l","I","D">> :> <<"M","o","d","e","l","I","d">> @@
    <<"V","e","h","i","c","l","e","T","y","p","e","N","a","m","e">> :> <<"V","e","h","i","c","l","e","T","y","p","e">>

RECURSIVE _standardize_variable_names(_)
_standardize_variable_names(object) ==
    IF object.t = "dict"
    THEN Dict(DictFromPairs(
            [i \in 1..Len(object.items) |->
                Entry(GetOrKey(client_base_STANDARD_VARIABLE_NAMES, object.items[i].k),
                      _standardize_variable_names(object.items[i].v))]))
    ELSE IF object.t = "list"
    THEN List([i \in 1..Len(object.items) |-> _standardize_variable_names(object.items[i])])
    ELSE object

-----------------------------------------------------------------------------
(* utils.py *)

STANDARD_VARIABLE_NAMES ==
    <<"I","D">> :> <<"I","d">> @@
    <<"M","a","k","e","_","I","D">> :> <<"M","a","k","e","I","d">> @@
    <<"M","a","k","e","_","N","a","m","e">> :> <<"M","a","k","e","N","a","m","e">> @@
    <<"M","a","k","e","I","D">> :> <<"M","a","k","e","I","d">> @@
    <<"M","f","r","_","C","o","m","m","o","n","N","a","m","e">> :> <<"M","a","n","u","f","a","c","t","u","r","e","r","C","o","m","m","o","n","N","a","m","e">> @@
    <<"M","f","r","_","I","D">> :> <<"M","a","n","u","f","a","c","t","u","r","e","r","I","d">> @@
    <<"M","f","r","_","N","a","m","e">> :> <<"M","a","n","u","f","a","c","t","u","r","e","r","N","a","m","e">> @@
    <<"M","f","r","I","d">> :> <<"M","a","n","u","f","a","c","t","u","r","e","r","I","d">> @@
    <<"M","f","r","N","a","m","e">> :> <<"M","a","n","u","f","a","c","t","u","r","e","r","N","a","m","e">> @@
    <<"M","o","d","e","l","_","I","D">> :> <<"M","o","d","e","l","I","d">> @@
    <<"M","o","d","e","l","_","N","a","m","e">> :> <<"M","o","d","e","l","N","a","m","e">> @@
    <<"M","o","d","e","l","I","D">> :> <<"M","o","d","e","l","I","d">>

RECURSIVE standardize_variable_names(_)
standardize_variable_names(object) ==
    IF object.t = "dict"
    THEN Dict(DictFromPairs(
            [i \in 1..Len(object.items) |->
                Entry(GetOrKey(STANDARD_VARIABLE_NAMES, object.items[i].k),
                      standardize_variable_names(object.items[i].v))]))
    ELSE IF object.t = "list"
    THEN List([i \in 1..Len(object.items) |-> standardize_variable_names(object.items[i])])
    ELSE object

-----------------------------------------------------------------------------
(* transforms.py: snake_case *)

\* _VARIABLE_NAME_RE.sub(r"_\1", key) with the pattern ([A-Z]+)(?=([a-z_]|)):
\* the lookahead has an empty alternative and always succeeds, so every
\* maximal run of uppercase letters is one match and gets "_" in front.
RECURSIVE VARIABLE_NAME_RE_sub_from(_, _)
VARIABLE_NAME_RE_sub_from(key, i) ==
    IF i > Len(key) THEN <<>>
    ELSE IF key[i] \in UPPER /\ (i = 1 \/ key[i-1] \notin UPPER)
         THEN <<"_", key[i]>> \o VARIABLE_NAME_RE_sub_from(key, i + 1)
         ELSE <<key[i]>> \o VARIABLE_NAME_RE_sub_from(key, i + 1)

VARIABLE_NAME_RE_sub(key) == VARIABLE_NAME_RE_sub_from(key, 1)

\* in the order of the dict literal, which the loop follows
WORDS_TO_SEPARATE == <<
    [compound_word |-> <<"n","c","s","a">>, separated_word |-> <<"n","c","s","a","_">>],
    [compound_word |-> <<"e","v","d","r","i","v","e">>, separated_word |-> <<"e","v","_","d","r","i","v","e">>],
    [compound_word |-> <<"s","a","e">>, separated_word |-> <<"s","a","e","_">>],
    [compound_word |-> <<"d","o","t","c","o","d","e">>, separated_word |-> <<"d","o","t","_","c","o","d","e">>],
    [compound_word |-> <<"g","c","w","r","f","r","o","m">>, separated_word |-> <<"g","c","w","r","_","f","r","o","m">>],
    [compound_word |-> <<"g","v","w","r","f","r","o","m">>, separated_word |-> <<"g","v","w","r","_","f","r","o","m">>],
    [compound_word |-> <<"g","c","w","r","t","o">>, separated_word |-> <<"g","c","w","r","_","t","o">>],
    [compound_word |-> <<"g","v","w","r","t","o">>, separated_word |-> <<"g","v","w","r","_","t","o">>] >>

\* the loop over _WORDS_TO_SEPARATE: the first compound word found in
\* new_key is replaced, then the loop breaks
separate_words(new_key) ==
    LET hits == {w \in 1..Len(WORDS_TO_SEPARATE) :
                    contains(new_key, WORDS_TO_SEPARATE[w].compound_word)}
    IN IF hits = {} THEN new_key
       ELSE LET w == CHOOSE x \in hits : \A y \in hits : x <= y
            IN replace(new_key, WORDS_TO_SEPARATE[w].compound_word,
                                WORDS_TO_SEPARATE[w].separated_word)

\* snake_key with a pattern that matches one uppercase letter at a time
snake_key_per_letter(key) ==
    LET sub == [i \in 1..(2 * Len(key)) |->
                   IF i % 2 = 1 THEN (IF key[(i + 1) \div 2] \in UPPER THEN "_" ELSE "")
                   ELSE key[i \div 2]]
        k1 == lower(SelectSeq(sub, LAMBDA c : c # ""))
        k2 == replace(k1, <<"_","_">>, <<"_">>)
        k3 == IF k2[1] = "_" THEN SubSeq(k2, 2, Len(k2)) ELSE k2
    IN separate_words(k3)

\* the new key of one entry; key is not empty
snake_key(key) ==
    LET k1 == lower(VARIABLE_NAME_RE_sub(key))
        k2 == replace(k1, <<"_","_">>, <<"_">>)
        k3 == IF k2[1] = "_" THEN SubSeq(k2, 2, Len(k2)) ELSE k2
    IN separate_words(k3)

\* snake_case that cases the keys of the mapping and leaves every value
snake_case_shallow(object) ==
    IF object.t # "dict" THEN Raise(<<"A","t","t","r","i","b","u","t","e","E","r","r","o","r">>)
    ELSE IF \E i \in 1..Len(object.items) : object.items[i].k = <<>> THEN Raise(<<"I","n","d","e","x","E","r","r","o","r">>)
    ELSE Dict(DictFromPairs([i \in 1..Len(object.items) |->
                                Entry(snake_key(object.items[i].k), object.items[i].v)]))

RECURSIVE snake_case(_)
snake_case(object) ==
    IF object.t # "dict" THEN Raise(<<"A","t","t","r","i","b","u","t","e","E","r","r","o","r">>)     \* object.items()
    ELSE
    LET \* one turn of the loop: the entry it stores, or the exception it raises
        stored(key, value) == [raised |-> None, entry |-> Entry(snake_key(key), value)]
        list_stored(key, value) ==
            IF \E j \in 1..Len(value) : IsRaise(value[j])
            THEN [raised |-> value[CHOOSE j \in 1..Len(value) :
                                      /\ IsRaise(value[j])
                                      /\ \A m \in 1..(j-1) : ~IsRaise(value[m])],
                  entry |-> None]
            ELSE stored(key, List(value))
        turn(e) ==
            IF e.k = <<>> THEN [raised |-> Raise(<<"I","n","d","e","x","E","r","r","o","r">>), entry |-> None]   \* new_key[0]
            ELSE IF e.v.t = "list"
            THEN LET with(value) == list_stored(e.k, value)
                 IN Once(Eager([j \in 1..Len(e.v.items) |-> snake_case(e.v.items[j])]), with)
            ELSE stored(e.k, e.v)
        new_object(turns) ==
            IF \E i \in 1..Len(turns) : turns[i].raised # None
            THEN turns[CHOOSE i \in 1..Len(turns) :
                          /\ turns[i].raised # None
                          /\ \A j \in 1..(i-1) : turns[j].raised = None].raised
            ELSE Dict(DictFromPairs([i \in 1..Len(turns) |-> turns[i].entry]))
    IN Once(Eager([i \in 1..Len(object.items) |-> turn(object.items[i])]), new_object)

-----------------------------------------------------------------------------
(* models.py: the dataclasses.  A field is declared without default        *)
(* (Required), as Optional[...] without default (Optional), with a default *)
(* (Default), or as a List of another dataclass without default (ListOf).  *)

Field(name, kind, default, nested) ==
    [name |-> name, kind |-> kind, default |-> default, nested |-> nested]
Required(name) == Field(name, "required", None, <<>>)
Optional(name) == Field(name, "optional", None, <<>>)
Default(name, default) == Field(name, "default", default, <<>>)
ListOf(name, cls) == Field(name, "required", None, cls)

Document == <<
    Required(<<"c","o","v","e","r","_","l","e","t","t","e","r","_","u","r","l">>),
    Required(<<"l","e","t","t","e","r","_","d","a","t","e">>),
    Required(<<"m","a","n","u","f","a","c","t","u","r","e","r","_","i","d">>),
    Required(<<"m","a","n","u","f","a","c","t","u","r","e","r">>),
    Required(<<"n","a","m","e">>),
    Required(<<"u","r","l">>),
    Default(<<"t","y","p","e">>, None),
    Default(<<"m","o","d","e","l","_","y","e","a","r","_","f","r","o","m">>, None),
    Default(<<"m","o","d","e","l","_","y","e","a","r","_","t","o">>, None) >>

Make == <<
    Required(<<"m","a","k","e","_","i","d">>),
    Required(<<"m","a","k","e">>),
    Default(<<"m","a","n","u","f","a","c","t","u","r","e","r","_","i","d">>, None),
    Default(<<"m","a","n","u","f","a","c","t","u","r","e","r">>, None),
    Default(<<"v","e","h","i","c","l","e","_","t","y","p","e","_","i","d">>, None),
    Default(<<"v","e","h","i","c","l","e","_","t","y","p","e">>, None) >>

Model == <<
    Required(<<"m","o","d","e","l","_","i","d">>),
    Required(<<"m","o","d","e","l">>),
    Default(<<"m","a","k","e","_","i","d">>, None),
    Default(<<"m","a","k","e">>, None),
    Default(<<"v","e","h","i","c","l","e","_","t","y","p","e","_","i","d">>, None),
    Default(<<"v","e","h","i","c","l","e","_","t","y","p","e">>, None) >>

Manufacturer == <<
    Required(<<"m","a","n","u","f","a","c","t","u","r","e","r","_","i","d">>),
    Required(<<"m","a","n","u","f","a","c","t","u","r","e","r">>),
    Required(<<"m","a","n","u","f","a","c","t","u","r","e","r","_","c","o","m","m","o","n","_","n","a","m","e">>) >>

ManufacturerType == <<
    Required(<<"n","a","m","e">>) >>

VehicleType == <<
    Optional(<<"n","a","m","e">>),
    Optional(<<"v","e","h","i","c","l","e","_","t","y","p","e">>),
    Default(<<"v","e","h","i","c","l","e","_","t","y","p","e","_","i","d">>, None),
    Default(<<"m","a","k","e">>, None),
    Default(<<"m","a","k","e","_","i","d">>, None),
    Default(<<"g","v","w","r","_","f","r","o","m">>, None),
    Default(<<"g","v","w","r","_","t","o">>, None),
    Default(<<"i","s","_","p","r","i","m","a","r","y">>, None) >>

ManufacturerDetail == <<
    Required(<<"m","a","n","u","f","a","c","t","u","r","e","r","_","i","d">>),
    Required(<<"m","a","n","u","f","a","c","t","u","r","e","r">>),
    Optional(<<"m","a","n","u","f","a","c","t","u","r","e","r","_","c","o","m","m","o","n","_","n","a","m","e">>),
    ListOf(<<"m","a","n","u","f","a","c","t","u","r","e","r","_","t","y","p","e","s">>, <<"M","a","n","u","f","a","c","t","u","r","e","r","T","y","p","e">>),
    ListOf(<<"v","e","h","i","c","l","e","_","t","y","p","e","s">>, <<"V","e","h","i","c","l","e","T","y","p","e">>),
    Default(<<"a","d","d","r","e","s","s">>, None),
    Default(<<"a","d","d","r","e","s","s","2">>, None),
    Default(<<"c","i","t","y">>, None),
    Default(<<"c","o","n","t","a","c","t","_","e","m","a","i","l">>, None),
    Default(<<"c","o","n","t","a","c","t","_","f","a","x">>, None),
    Default(<<"c","o","n","t","a","c","t","_","p","h","o","n","e">>, None),
    Default(<<"c","o","u","n","t","r","y">>, None),
    Default(<<"d","b","a","s">>, None),
    Default(<<"e","q","u","i","p","m","e","n","t","_","i","t","e","m","s">>, None),
    Default(<<"l","a","s","t","_","u","p","d","a","t","e","d">>, None),
    Default(<<"o","t","h","e","r","_","m","a","n","u","f","a","c","t","u","r","e","r","_","d","e","t","a","i","l","s">>, None),
    Default(<<"p","o","s","t","a","l","_","c","o","d","e">>, None),
    Default(<<"p","r","i","m","a","r","y","_","p","r","o","d","u","c","t">>, None),
    Default(<<"p","r","i","n","c","i","p","a","l","_","f","i","r","s","t","_","n","a","m","e">>, None),
    Default(<<"p","r","i","n","c","i","p","a","l","_","l","a","s","t","_","n","a","m","e">>, None),
    Default(<<"p","r","i","n","c","i","p","a","l","_","p","o","s","i","t","i","o","n">>, None),
    Default(<<"s","t","a","t","e","_","p","r","o","v","i","n","c","e">>, None),
    Default(<<"s","u","b","m","i","t","t","e","d","_","n","a","m","e">>, None),
    Default(<<"s","u","b","m","i","t","t","e","d","_","o","n">>, None),
    Default(<<"s","u","b","m","i","t","t","e","d","_","p","o","s","i","t","i","o","n">>, None) >>

PlantCode == <<
    Required(<<"d","o","t","_","c","o","d","e">>),
    Required(<<"n","a","m","e">>),
    Default(<<"a","d","d","r","e","s","s">>, None),
    Default(<<"c","i","t","y">>, None),
    Default(<<"c","o","u","n","t","r","y">>, None),
    Default(<<"o","l","d","_","d","o","t","_","c","o","d","e">>, None),
    Default(<<"p","o","s","t","a","l","_","c","o","d","e">>, None),
    Default(<<"s","t","a","t","e","_","p","r","o","v","i","n","c","e">>, None),
    Default(<<"s","t","a","t","u","s">>, None) >>

Value == <<
    Required(<<"e","l","e","m","e","n","t","_","n","a","m","e">>),
    Required(<<"i","d">>),
    Required(<<"n","a","m","e">>) >>

Variable == <<
    Required(<<"i","d">>),
    Required(<<"n","a","m","e">>),
    Optional(<<"g","r","o","u","p","_","n","a","m","e">>),
    Required(<<"d","a","t","a","_","t","y","p","e">>),
    Required(<<"d","e","s","c","r","i","p","t","i","o","n">>) >>

Vehicle_field_names == <<
    <<"a","b","s">>,
    <<"a","c","t","i","v","e","_","s","a","f","e","t","y","_","s","y","s","_","n","o","t","e">>,
    <<"a","d","a","p","t","i","v","e","_","c","r","u","i","s","e","_","c","o","n","t","r","o","l">>,
    <<"a","d","a","p","t","i","v","e","_","d","r","i","v","i","n","g","_","b","e","a","m">>,
    <<"a","d","a","p","t","i","v","e","_","h","e","a","d","l","i","g","h","t","s">>,
    <<"a","d","d","i","t","i","o","n","a","l","_","e","r","r","o","r","_","t","e","x","t">>,
    <<"a","i","r","_","b","a","g","_","l","o","c","_","c","u","r","t","a","i","n">>,
    <<"a","i","r","_","b","a","g","_","l","o","c","_","f","r","o","n","t">>,
    <<"a","i","r","_","b","a","g","_","l","o","c","_","k","n","e","e">>,
    <<"a","i","r","_","b","a","g","_","l","o","c","_","s","e","a","t","_","c","u","s","h","i","o","n">>,
    <<"a","i","r","_","b","a","g","_","l","o","c","_","s","i","d","e">>,
    <<"a","u","t","o","_","r","e","v","e","r","s","e","_","s","y","s","t","e","m">>,
    <<"a","u","t","o","m","a","t","i","c","_","p","e","d","e","s","t","r","i","a","n","_","a","l","e","r","t","i","n","g","_","s","o","u","n","d">>,
    <<"a","x","l","e","_","c","o","n","f","i","g","u","r","a","t","i","o","n">>,
    <<"a","x","l","e","s">>,
    <<"b","a","s","e","_","p","r","i","c","e">>,
    <<"b","a","t","t","e","r","y","_","a">>,
    <<"b","a","t","t","e","r","y","_","a","_","t","o">>,
    <<"b","a","t","t","e","r","y","_","c","e","l","l","s">>,
    <<"b","a","t","t","e","r","y","_","i","n","f","o">>,
    <<"b","a","t","t","e","r","y","_","k","w","h">>,
    <<"b","a","t","t","e","r","y","_","k","w","h","_","t","o">>,
    <<"b","a","t","t","e","r","y","_","m","o","d","u","l","e","s">>,
    <<"b","a","t","t","e","r","y","_","p","a","c","k","s">>,
    <<"b","a","t","t","e","r","y","_","t","y","p","e">>,
    <<"b","a","t","t","e","r","y","_","v">>,
    <<"b","a","t","t","e","r","y","_","v","_","t","o">>,
    <<"b","e","d","_","l","e","n","g","t","h","_","i","n">>,
    <<"b","e","d","_","t","y","p","e">>,
    <<"b","l","i","n","d","_","s","p","o","t","_","i","n","t","e","r","v","e","n","t","i","o","n">>,
    <<"b","l","i","n","d","_","s","p","o","t","_","m","o","n">>,
    <<"b","o","d","y","_","c","a","b","_","t","y","p","e">>,
    <<"b","o","d","y","_","c","l","a","s","s">>,
    <<"b","r","a","k","e","_","s","y","s","t","e","m","_","d","e","s","c">>,
    <<"b","r","a","k","e","_","s","y","s","t","e","m","_","t","y","p","e">>,
    <<"b","u","s","_","f","l","o","o","r","_","c","o","n","f","i","g","_","t","y","p","e">>,
    <<"b","u","s","_","l","e","n","g","t","h">>,
    <<"b","u","s","_","t","y","p","e">>,
    <<"c","a","n","_","a","a","c","n">>,
    <<"c","i","b">>,
    <<"c","a","s","h","_","f","o","r","_","c","l","u","n","k","e","r","s">>,
    <<"c","h","a","r","g","e","r","_","l","e","v","e","l">>,
    <<"c","h","a","r","g","e","r","_","p","o","w","e","r","_","k","w">>,
    <<"c","o","o","l","i","n","g","_","t","y","p","e">>,
    <<"c","u","r","b","_","w","e","i","g","h","t","_","l","b">>,
    <<"c","u","s","t","o","m","_","m","o","t","o","r","c","y","c","l","e","_","t","y","p","e">>,
    <<"d","a","y","t","i","m","e","_","r","u","n","n","i","n","g","_","l","i","g","h","t">>,
    <<"d","e","s","t","i","n","a","t","i","o","n","_","m","a","r","k","e","t">>,
    <<"d","i","s","p","l","a","c","e","m","e","n","t","_","c","c">>,
    <<"d","i","s","p","l","a","c","e","m","e","n","t","_","c","i">>,
    <<"d","i","s","p","l","a","c","e","m","e","n","t","_","l">>,
    <<"d","o","o","r","s">>,
    <<"d","r","i","v","e","_","t","y","p","e">>,
    <<"d","r","i","v","e","r","_","a","s","s","i","s","t">>,
    <<"d","y","n","a","m","i","c","_","b","r","a","k","e","_","s","u","p","p","o","r","t">>,
    <<"e","d","r">>,
    <<"e","s","c">>,
    <<"e","v","_","d","r","i","v","e","_","u","n","i","t">>,
    <<"e","l","e","c","t","r","i","f","i","c","a","t","i","o","n","_","l","e","v","e","l">>,
    <<"e","n","g","i","n","e","_","c","o","n","f","i","g","u","r","a","t","i","o","n">>,
    <<"e","n","g","i","n","e","_","c","y","c","l","e","s">>,
    <<"e","n","g","i","n","e","_","c","y","l","i","n","d","e","r","s">>,
    <<"e","n","g","i","n","e","_","h","p">>,
    <<"e","n","g","i","n","e","_","h","p","_","t","o">>,
    <<"e","n","g","i","n","e","_","k","w">>,
    <<"e","n","g","i","n","e","_","m","a","n","u","f","a","c","t","u","r","e","r">>,
    <<"e","n","g","i","n","e","_","m","o","d","e","l">>,
    <<"e","n","t","e","r","t","a","i","n","m","e","n","t","_","s","y","s","t","e","m">>,
    <<"e","r","r","o","r","_","c","o","d","e">>,
    <<"e","r","r","o","r","_","t","e","x","t">>,
    <<"f","o","r","w","a","r","d","_","c","o","l","l","i","s","i","o","n","_","w","a","r","n","i","n","g">>,
    <<"f","u","e","l","_","i","n","j","e","c","t","i","o","n","_","t","y","p","e">>,
    <<"f","u","e","l","_","t","y","p","e","_","p","r","i","m","a","r","y">>,
    <<"f","u","e","l","_","t","y","p","e","_","s","e","c","o","n","d","a","r","y">>,
    <<"g","c","w","r","_","f","r","o","m">>,
    <<"g","c","w","r","_","t","o">>,
    <<"g","v","w","r","_","f","r","o","m">>,
    <<"g","v","w","r","_","t","o">>,
    <<"k","e","y","l","e","s","s","_","i","g","n","i","t","i","o","n">>,
    <<"l","a","n","e","_","c","e","n","t","e","r","i","n","g","_","a","s","s","i","s","t","a","n","c","e">>,
    <<"l","a","n","e","_","d","e","p","a","r","t","u","r","e","_","w","a","r","n","i","n","g">>,
    <<"l","a","n","e","_","k","e","e","p","_","s","y","s","t","e","m">>,
    <<"l","o","w","e","r","_","b","e","a","m","_","h","e","a","d","l","a","m","p","_","l","i","g","h","t","_","s","o","u","r","c","e">>,
    <<"m","a","k","e">>,
    <<"m","a","k","e","_","i","d">>,
    <<"m","a","n","u","f","a","c","t","u","r","e","r">>,
    <<"m","a","n","u","f","a","c","t","u","r","e","r","_","i","d">>,
    <<"m","o","d","e","l">>,
    <<"m","o","d","e","l","_","i","d">>,
    <<"m","o","d","e","l","_","y","e","a","r">>,
    <<"m","o","t","o","r","c","y","c","l","e","_","c","h","a","s","s","i","s","_","t","y","p","e">>,
    <<"m","o","t","o","r","c","y","c","l","e","_","s","u","s","p","e","n","s","i","o","n","_","t","y","p","e">>,
    <<"n","c","s","a","_","b","o","d","y","_","t","y","p","e">>,
    <<"n","c","s","a","_","m","a","k","e">>,
    <<"n","c","s","a","_","m","a","p","_","e","x","c","_","a","p","p","r","o","v","e","d","_","b","y">>,
    <<"n","c","s","a","_","m","a","p","_","e","x","c","_","a","p","p","r","o","v","e","d","_","o","n">>,
    <<"n","c","s","a","_","m","a","p","p","i","n","g","_","e","x","c","e","p","t","i","o","n">>,
    <<"n","c","s","a","_","m","o","d","e","l">>,
    <<"n","c","s","a","_","n","o","t","e">>,
    <<"n","o","t","e">>,
    <<"o","t","h","e","r","_","b","u","s","_","i","n","f","o">>,
    <<"o","t","h","e","r","_","e","n","g","i","n","e","_","i","n","f","o">>,
    <<"o","t","h","e","r","_","m","o","t","o","r","c","y","c","l","e","_","i","n","f","o">>,
    <<"o","t","h","e","r","_","r","e","s","t","r","a","i","n","t","_","s","y","s","t","e","m","_","i","n","f","o">>,
    <<"o","t","h","e","r","_","t","r","a","i","l","e","r","_","i","n","f","o">>,
    <<"p","a","r","k","_","a","s","s","i","s","t">>,
    <<"p","e","d","e","s","t","r","i","a","n","_","a","u","t","o","m","a","t","i","c","_","e","m","e","r","g","e","n","c","y","_","b","r","a","k","i","n","g">>,
    <<"p","l","a","n","t","_","c","i","t","y">>,
    <<"p","l","a","n","t","_","c","o","m","p","a","n","y","_","n","a","m","e">>,
    <<"p","l","a","n","t","_","c","o","u","n","t","r","y">>,
    <<"p","l","a","n","t","_","s","t","a","t","e">>,
    <<"p","o","s","s","i","b","l","e","_","v","a","l","u","e","s">>,
    <<"p","r","e","t","e","n","s","i","o","n","e","r">>,
    <<"r","e","a","r","_","a","u","t","o","m","a","t","i","c","_","e","m","e","r","g","e","n","c","y","_","b","r","a","k","i","n","g">>,
    <<"r","e","a","r","_","c","r","o","s","s","_","t","r","a","f","f","i","c","_","a","l","e","r","t">>,
    <<"r","e","a","r","_","v","i","s","i","b","i","l","i","t","y","_","s","y","s","t","e","m">>,
    <<"s","a","e","_","a","u","t","o","m","a","t","i","o","n","_","l","e","v","e","l">>,
    <<"s","a","e","_","a","u","t","o","m","a","t","i","o","n","_","l","e","v","e","l","_","t","o">>,
    <<"s","e","a","t","_","b","e","l","t","s","_","a","l","l">>,
    <<"s","e","a","t","_","r","o","w","s">>,
    <<"s","e","a","t","s">>,
    <<"s","e","m","i","a","u","t","o","m","a","t","i","c","_","h","e","a","d","l","a","m","p","_","b","e","a","m","_","s","w","i","t","c","h","i","n","g">>,
    <<"s","e","r","i","e","s">>,
    <<"s","e","r","i","e","s","2">>,
    <<"s","t","e","e","r","i","n","g","_","l","o","c","a","t","i","o","n">>,
    <<"s","u","g","g","e","s","t","e","d","_","v","i","n">>,
    <<"t","p","m","s">>,
    <<"t","o","p","_","s","p","e","e","d","_","m","p","h">>,
    <<"t","r","a","c","k","_","w","i","d","t","h">>,
    <<"t","r","a","c","t","i","o","n","_","c","o","n","t","r","o","l">>,
    <<"t","r","a","i","l","e","r","_","b","o","d","y","_","t","y","p","e">>,
    <<"t","r","a","i","l","e","r","_","l","e","n","g","t","h">>,
    <<"t","r","a","i","l","e","r","_","t","y","p","e">>,
    <<"t","r","a","n","s","m","i","s","s","i","o","n","_","s","p","e","e","d","s">>,
    <<"t","r","a","n","s","m","i","s","s","i","o","n","_","s","t","y","l","e">>,
    <<"t","r","i","m">>,
    <<"t","r","i","m","2">>,
    <<"t","u","r","b","o">>,
    <<"v","i","n">>,
    <<"v","a","l","v","e","_","t","r","a","i","n","_","d","e","s","i","g","n">>,
    <<"v","e","h","i","c","l","e","_","t","y","p","e">>,
    <<"w","h","e","e","l","_","b","a","s","e","_","l","o","n","g">>,
    <<"w","h","e","e","l","_","b","a","s","e","_","s","h","o","r","t">>,
    <<"w","h","e","e","l","_","b","a","s","e","_","t","y","p","e">>,
    <<"w","h","e","e","l","_","s","i","z","e","_","f","r","o","n","t">>,
    <<"w","h","e","e","l","_","s","i","z","e","_","r","e","a","r">>,
    <<"w","h","e","e","l","s">>,
    <<"w","i","n","d","o","w","s">> >>

\* every field of Vehicle is a str without default
Vehicle ==
    [i \in 1..Len(Vehicle_field_names) |-> Required(Vehicle_field_names[i])]

WorldManufacturerIndex == <<
    Required(<<"c","r","e","a","t","e","d","_","o","n">>),
    Required(<<"d","a","t","e","_","a","v","a","i","l","a","b","l","e","_","t","o","_","p","u","b","l","i","c">>),
    Optional(<<"m","a","n","u","f","a","c","t","u","r","e","r">>),
    Optional(<<"n","a","m","e">>),
    Optional(<<"i","d">>),
    Optional(<<"u","p","d","a","t","e","d","_","o","n">>),
    Required(<<"v","e","h","i","c","l","e","_","t","y","p","e">>),
    Default(<<"w","m","i">>, None),
    Default(<<"c","o","m","m","o","n","_","n","a","m","e">>, Scalar(<<>>)),
    Default(<<"c","o","u","n","t","r","y">>, None),
    Default(<<"m","a","k","e">>, Scalar(<<>>)),
    Default(<<"m","a","n","u","f","a","c","t","u","r","e","r","_","i","d">>, None),
    Default(<<"p","a","r","e","n","t","_","c","o","m","p","a","n","y","_","n","a","m","e">>, Scalar(<<>>)),
    Default(<<"u","r","l">>, Scalar(<<>>)) >>


models ==
    <<"D","o","c","u","m","e","n","t">> :> Document @@ <<"M","a","k","e">> :> Make @@ <<"M","o","d","e","l">> :> Model @@
    <<"M","a","n","u","f","a","c","t","u","r","e","r">> :> Manufacturer @@ <<"M","a","n","u","f","a","c","t","u","r","e","r","T","y","p","e">> :> ManufacturerType @@
    <<"V","e","h","i","c","l","e","T","y","p","e">> :> VehicleType @@ <<"M","a","n","u","f","a","c","t","u","r","e","r","D","e","t","a","i","l">> :> ManufacturerDetail @@
    <<"P","l","a","n","t","C","o","d","e">> :> PlantCode @@ <<"V","a","l","u","e">> :> Value @@ <<"V","a","r","i","a","b","l","e">> :> Variable @@
    <<"V","e","h","i","c","l","e">> :> Vehicle @@ <<"W","o","r","l","d","M","a","n","u","f","a","c","t","u","r","e","r","I","n","d","e","x">> :> WorldManufacturerIndex

\* attribute access on a dataclass instance
HasAttr(self, name) == \E i \in 1..Len(self.items) : self.items[i].k = name
GetAttr(self, name) == self.items[CHOOSE i \in 1..Len(self.items) : self.items[i].k = name].v
SetAttr(self, name, value) ==
    [self EXCEPT !.items = DictFromPairs(Append(self.items, Entry(name, value)))]
DelAttr(self, name) ==
    [self EXCEPT !.items = SelectSeq(self.items, LAMBDA e : e.k # name)]

\* __post_init__ of WorldManufacturerIndex without the two assignments
WorldManufacturerIndex_post_init_discarding(self) ==
    DelAttr(DelAttr(self, <<"i","d">>), <<"n","a","m","e">>)

\* __post_init__ of VehicleType without the del of name
VehicleType_post_init_keeping_name(self) ==
    IF GetAttr(self, <<"n","a","m","e">>) # None
    THEN SetAttr(self, <<"v","e","h","i","c","l","e","_","t","y","p","e">>, GetAttr(self, <<"n","a","m","e">>))
    ELSE self

VehicleType_post_init(self) ==
    LET renamed == IF GetAttr(self, <<"n","a","m","e">>) # None
                   THEN SetAttr(self, <<"v","e","h","i","c","l","e","_","t","y","p","e">>, GetAttr(self, <<"n","a","m","e">>))
                   ELSE self
    IN DelAttr(renamed, <<"n","a","m","e">>)

WorldManufacturerIndex_post_init(self) ==
    LET s1 == IF GetAttr(self, <<"i","d">>) # None
              THEN SetAttr(self, <<"m","a","n","u","f","a","c","t","u","r","e","r","_","i","d">>, GetAttr(self, <<"i","d">>))
              ELSE self
        s2 == DelAttr(s1, <<"i","d">>)
        s3 == IF GetAttr(s2, <<"n","a","m","e">>) # None
              THEN SetAttr(s2, <<"m","a","n","u","f","a","c","t","u","r","e","r">>, GetAttr(s2, <<"n","a","m","e">>))
              ELSE s2
    IN DelAttr(s3, <<"n","a","m","e">>)

\* dataclass_init without the call of __post_init__
dataclass_init_without_post_init(cls, data) ==
    Record(cls, [i \in 1..Len(models[cls]) |->
                    Entry(models[cls][i].name, GetItem(data, models[cls][i].name))])

\* cls(**data) for data that holds every field of cls: the generated
\* __init__ sets the attributes in declaration order, then __post_init__ runs
dataclass_init(cls, data) ==
    LET fields == models[cls]
        new(kwargs) == Record(cls, [i \in 1..Len(fields) |->
                                       Entry(fields[i].name, GetItem(kwargs, fields[i].name))])
        post_init(self) ==
            IF cls = <<"V","e","h","i","c","l","e","T","y","p","e">> THEN VehicleType_post_init(self)
            ELSE IF cls = <<"W","o","r","l","d","M","a","n","u","f","a","c","t","u","r","e","r","I","n","d","e","x">> THEN WorldManufacturerIndex_post_init(self)
            ELSE self
    IN Once(Once(data, new), post_init)

\* the frozen argument of each @dataclass decorator
frozen == [cls \in DOMAIN models |-> cls \notin {<<"V","e","h","i","c","l","e","T","y","p","e">>, <<"W","o","r","l","d","M","a","n","u","f","a","c","t","u","r","e","r","I","n","d","e","x">>}]

\* self.name = value from outside the class: the __setattr__ a frozen
\* dataclass generates raises, object.__setattr__ assigns
dataclass_setattr(self, name, value) ==
    IF frozen[self.s] THEN Raise(<<"F","r","o","z","e","n","I","n","s","t","a","n","c","e","E","r","r","o","r">>)
    ELSE SetAttr(self, name, value)

\* del self.name
dataclass_delattr(self, name) ==
    IF frozen[self.s] THEN Raise(<<"F","r","o","z","e","n","I","n","s","t","a","n","c","e","E","r","r","o","r">>)
    ELSE IF ~HasAttr(self, name) THEN Raise(<<"A","t","t","r","i","b","u","t","e","E","r","r","o","r">>)
    ELSE DelAttr(self, name)

\* self == other: the __eq__ that eq=True (the default) generates compares
\* the tuples of all declared fields of two instances of one class, and
\* reading a field that __post_init__ deleted raises AttributeError; lists
\* compare element by element
RECURSIVE dataclass_eq(_, _)
dataclass_eq(self, other) ==
    IF self.t = "list" /\ other.t = "list"
    THEN IF Len(self.items) # Len(other.items) THEN Scalar(<<"F","a","l","s","e">>)
         ELSE LET each == Eager([i \in 1..Len(self.items) |->
                                    dataclass_eq(self.items[i], other.items[i])])
              IN IF \E i \in 1..Len(each) : IsRaise(each[i])
                 THEN each[CHOOSE i \in 1..Len(each) :
                              IsRaise(each[i]) /\ \A j \in 1..(i - 1) : ~IsRaise(each[j])]
                 ELSE IF \A i \in 1..Len(each) : each[i] = Scalar(<<"T","r","u","e">>)
                 THEN Scalar(<<"T","r","u","e">>) ELSE Scalar(<<"F","a","l","s","e">>)
    ELSE IF self.t # "record" \/ other.t # "record"
    THEN IF self = other THEN Scalar(<<"T","r","u","e">>) ELSE Scalar(<<"F","a","l","s","e">>)
    ELSE IF self.s # other.s THEN Scalar(<<"F","a","l","s","e">>)
    ELSE LET fields == models[self.s]
         IN IF \E i \in 1..Len(fields) :
                  ~HasAttr(self, fields[i].name) \/ ~HasAttr(other, fields[i].name)
            THEN Raise(<<"A","t","t","r","i","b","u","t","e","E","r","r","o","r">>)
            ELSE dataclass_eq(List([i \in 1..Len(fields) |-> GetAttr(self, fields[i].name)]),
                              List([i \in 1..Len(fields) |-> GetAttr(other, fields[i].name)]))

-----------------------------------------------------------------------------
(* The typed mapper: desert.schema(cls, meta={"unknown": unknown}).load(data). *)
(* desert and marshmallow are libraries outside the repository; load follows   *)
(* the contract of the Typed Mapper: a key of data that matches a field gives  *)
(* its value, an absent field takes its declared default (None for an         *)
(* Optional one), an absent field without default is a validation error, and   *)
(* so is an undeclared key when unknown is RAISE; under EXCLUDE an undeclared  *)
(* key is dropped.  A List of dataclasses is loaded element by element with    *)
(* the schema of the nested class, which desert builds without meta, so that   *)
(* marshmallow's default (RAISE) governs it.  Type coercion of scalars is not  *)
(* modelled.                                                                   *)

EXCLUDE == "exclude"
RAISE == "raise"

RECURSIVE load(_, _, _)
load(cls, unknown, data) ==
    IF data.t # "dict" THEN Raise(<<"V","a","l","i","d","a","t","i","o","n","E","r","r","o","r">>)
    ELSE
    LET fields == models[cls]
        n == Len(fields)
        declared == {fields[i].name : i \in 1..n}
        missing == {i \in 1..n : fields[i].kind = "required" /\ ~HasKey(data, fields[i].name)}
        undeclared == Keys(data) \ declared
        \* the loaded value of field i
        loaded(i) ==
            IF ~HasKey(data, fields[i].name) THEN fields[i].default
            ELSE LET value == GetItem(data, fields[i].name)
                 IN IF fields[i].nested = <<>> THEN value
                    ELSE IF value.t # "list" THEN Raise(<<"V","a","l","i","d","a","t","i","o","n","E","r","r","o","r">>)
                    ELSE LET nested(each) ==
                                 IF \E j \in 1..Len(each) : IsRaise(each[j])
                                 THEN Raise(<<"V","a","l","i","d","a","t","i","o","n","E","r","r","o","r">>)
                                 ELSE List(each)
                         IN Once(Eager([j \in 1..Len(value.items) |->
                                           load(fields[i].nested, RAISE, value.items[j])]),
                                 nested)
        \* cls(**valid) when every field loaded
        make_data_class(valid) ==
            IF \E i \in 1..n : IsRaise(valid[i].v) THEN Raise(<<"V","a","l","i","d","a","t","i","o","n","E","r","r","o","r">>)
            ELSE dataclass_init(cls, Dict(valid))
    IN IF missing # {} THEN Raise(<<"V","a","l","i","d","a","t","i","o","n","E","r","r","o","r">>)
       ELSE IF unknown = RAISE /\ undeclared # {} THEN Raise(<<"V","a","l","i","d","a","t","i","o","n","E","r","r","o","r">>)
       ELSE Once(Eager([i \in 1..n |-> Entry(fields[i].name, loaded(i))]), make_data_class)

-----------------------------------------------------------------------------
(* exceptions.py.  An HTTP response is [status_code, headers, body]: headers *)
(* is a dict, body the decoded JSON value or, for a body that is no JSON,    *)
(* [t |-> "text"].                                                           *)

Response(status_code, headers, body) ==
    [status_code |-> status_code, headers |-> headers, body |-> body]
Text(text) == [t |-> "text", s |-> text, items |-> <<>>]

\* resp.json()
json(resp) == IF resp.body.t = "text" THEN Raise(<<"J","S","O","N","D","e","c","o","d","e","E","r","r","o","r">>) ELSE resp.body

\* dict.get(key, default)
get(d, key, default) == IF HasKey(d, key) THEN GetItem(d, key) ELSE default

\* bool(value) as the if statements of VPICError.__init__ take it
truthy(value) ==
    /\ value.t # "none"
    /\ (value.t = "scalar" => value.s # <<>>)
    /\ (value.t \in {"list", "dict"} => value.items # <<>>)

VPICError_message == Scalar(<<"A","n"," ","u","n","k","n","o","w","n"," ","e","r","r","o","r"," ","o","c","c","u","r","r","e","d">>)
VPICError_detail == None

\* VPICError.__init__ without self.response = response
VPICError_init_without_response(exc, message, detail, response) ==
    [t |-> "raise", s |-> exc, items |-> <<>>,
     message |-> IF truthy(message) THEN message ELSE VPICError_message,
     detail |-> IF truthy(detail) THEN detail ELSE VPICError_detail,
     response |-> None]

\* exc(message=message, detail=detail, response=resp) for exc a VPICError class
VPICError_init(exc, message, detail, response) ==
    [t |-> "raise", s |-> exc, items |-> <<>>,
     message |-> IF truthy(message) THEN message ELSE VPICError_message,
     detail |-> IF truthy(detail) THEN detail ELSE VPICError_detail,
     response |-> response]

\* str(error)
VPICError_str(self) == self.message

HTTP_ERRORS ==
    400 :> <<"I","n","v","a","l","i","d","R","e","q","u","e","s","t">> @@
    404 :> <<"M","e","t","h","o","d","N","o","t","F","o","u","n","d">> @@
    429 :> <<"T","o","o","M","a","n","y","R","e","q","u","e","s","t","s">> @@
    500 :> <<"I","n","t","e","r","n","a","l","E","r","r","o","r">> @@
    503 :> <<"S","e","r","v","i","c","e","U","n","a","v","a","i","l","a","b","l","e">>

\* what handle_error_response raises
handle_error_response(resp) ==
    LET is_json == get(resp.headers, <<"c","o","n","t","e","n","t","-","t","y","p","e">>, Scalar(<<"a","p","p","l","i","c","a","t","i","o","n","/","j","s","o","n">>))
                      = Scalar(<<"a","p","p","l","i","c","a","t","i","o","n","/","j","s","o","n">>)
        error == IF is_json THEN json(resp) ELSE Scalar(<<>>)
    IN IF IsRaise(error) THEN error
       ELSE IF is_json /\ error.t # "dict" THEN Raise(<<"A","t","t","r","i","b","u","t","e","E","r","r","o","r">>)   \* error.get
       ELSE
       LET message == IF is_json THEN get(error, <<"m","e","s","s","a","g","e">>, None) ELSE Scalar(<<>>)
           detail == IF is_json THEN get(error, <<"m","e","s","s","a","g","e","D","e","t","a","i","l">>, None) ELSE Scalar(<<>>)
           exc == IF resp.status_code \in DOMAIN HTTP_ERRORS
                  THEN HTTP_ERRORS[resp.status_code] ELSE <<"V","P","I","C","E","r","r","o","r">>
       IN IF detail.t # "scalar" THEN Raise(<<"A","t","t","r","i","b","u","t","e","E","r","r","o","r">>)   \* detail.startswith
          ELSE IF startswith(detail.s, <<"T","h","e"," ","p","a","r","a","m","e","t","e","r","s"," ","d","i","c","t","i","o","n","a","r","y">>)
          THEN VPICError_init(<<"I","n","v","a","l","i","d","P","a","r","a","m","e","t","e","r","s">>, message, detail, resp)
          ELSE VPICError_init(exc, message, detail, resp)

-----------------------------------------------------------------------------
(* client_base.py, client.py: the request path.  The HTTP call is the        *)
(* environment's: resp is the response the session returned.                 *)

ErrorStatus == 400

\* _request that canonicalises whatever the flag of the client is
_request_always_standardizing(self_standardize_variables, resp) ==
    IF resp.status_code >= ErrorStatus THEN handle_error_response(resp)
    ELSE LET content == json(resp)
         IN IF IsRaise(content) THEN content
            ELSE IF content.t # "dict" THEN Raise(<<"T","y","p","e","E","r","r","o","r">>)
            ELSE IF ~HasKey(content, <<"R","e","s","u","l","t","s">>) THEN Raise(<<"K","e","y","E","r","r","o","r">>)
            ELSE _standardize_variable_names(GetItem(content, <<"R","e","s","u","l","t","s">>))

\* ClientBase._request after resp = self.session.get(api, params=params)
_request(self_standardize_variables, resp) ==
    IF resp.status_code >= ErrorStatus THEN handle_error_response(resp)
    ELSE LET content == json(resp)
         IN IF IsRaise(content) THEN content
            ELSE IF content.t # "dict" THEN Raise(<<"T","y","p","e","E","r","r","o","r">>)
            ELSE IF ~HasKey(content, <<"R","e","s","u","l","t","s">>) THEN Raise(<<"K","e","y","E","r","r","o","r">>)
            ELSE IF self_standardize_variables
                 THEN _standardize_variable_names(GetItem(content, <<"R","e","s","u","l","t","s">>))
                 ELSE GetItem(content, <<"R","e","s","u","l","t","s">>)

\* _request_post that returns the Results of any response that has them
_request_post_reading_results(self_standardize_variables, resp) ==
    IF resp.body.t = "dict" /\ HasKey(resp.body, <<"R","e","s","u","l","t","s">>)
    THEN GetItem(resp.body, <<"R","e","s","u","l","t","s">>)
    ELSE handle_error_response(resp)

\* ClientBase._request_post after resp = self.session.post(url=api, ...)
_request_post(self_standardize_variables, resp) ==
    IF resp.status_code >= ErrorStatus THEN handle_error_response(resp)
    ELSE LET content == json(resp)
         IN IF IsRaise(content) THEN content
            ELSE IF content.t # "dict" THEN Raise(<<"T","y","p","e","E","r","r","o","r">>)
            ELSE IF ~HasKey(content, <<"R","e","s","u","l","t","s">>) THEN Raise(<<"K","e","y","E","r","r","o","r">>)
            ELSE IF self_standardize_variables
                 THEN _standardize_variable_names(GetItem(content, <<"R","e","s","u","l","t","s">>))
                 ELSE GetItem(content, <<"R","e","s","u","l","t","s">>)

\* decode_vin_batch(vins); vins is None or a list of strings
Client_decode_vin_batch(self_standardize_variables, vins, resp) ==
    IF vins = None THEN Raise(<<"V","a","l","u","e","E","r","r","o","r">>)
    ELSE IF Len(vins.items) \notin 1..50 THEN Raise(<<"V","a","l","u","e","E","r","r","o","r">>)
    ELSE _request_post(self_standardize_variables, resp)

Client_get_all_makes(self_standardize_variables, resp) ==
    _request(self_standardize_variables, resp)

Client_get_manufacturer_details(self_standardize_variables, resp) ==
    _request(self_standardize_variables, resp)

Client_get_vehicle_types_for_make(self_standardize_variables, resp) ==
    _request(self_standardize_variables, resp)

\* get_wmis_for_manufacturer(manufacturer, vehicle_type): no request is made
\* when both are None
Client_get_wmis_for_manufacturer(self_standardize_variables, manufacturer, vehicle_type, resp) ==
    IF manufacturer = None /\ vehicle_type = None THEN Raise(<<"V","a","l","u","e","E","r","r","o","r">>)
    ELSE _request(self_standardize_variables, resp)

\* decode_vin that returns the whole list whatever flatten is
Client_decode_vin_unflattened(self_standardize_variables, vin, model_year, flatten, resp) ==
    _request(self_standardize_variables, resp)

\* decode_vin(vin, model_year, extend, flatten); vin is None or a string,
\* model_year None or an int [n |-> year]; extend only picks the endpoint,
\* which the response stands for
Client_decode_vin(self_standardize_variables, vin, model_year, flatten, resp) ==
    IF vin = None THEN Raise(<<"V","a","l","u","e","E","r","r","o","r">>)
    ELSE IF Len(vin.s) \notin 6..17 THEN Raise(<<"V","a","l","u","e","E","r","r","o","r">>)
    ELSE IF model_year # None /\ model_year.n # 0 /\ model_year.n < 1981 THEN Raise(<<"V","a","l","u","e","E","r","r","o","r">>)
    ELSE LET results == _request(self_standardize_variables, resp)
         IN IF IsRaise(results) \/ ~flatten THEN results
            ELSE IF results.t = "dict" THEN Raise(<<"K","e","y","E","r","r","o","r">>)
            ELSE IF results.t # "list" THEN Raise(<<"T","y","p","e","E","r","r","o","r">>)
            ELSE IF Len(results.items) = 0 THEN Raise(<<"I","n","d","e","x","E","r","r","o","r">>)
            ELSE results.items[1]

\* decode_wmi(wmi)
Client_decode_wmi(self_standardize_variables, wmi, resp) ==
    IF Len(wmi.s) \notin {3, 6} THEN Raise(<<"V","a","l","u","e","E","r","r","o","r">>)
    ELSE LET results == _request(self_standardize_variables, resp)
         IN IF IsRaise(results) THEN results
            ELSE IF results.t = "dict" THEN Raise(<<"K","e","y","E","r","r","o","r">>)
            ELSE IF results.t # "list" THEN Raise(<<"T","y","p","e","E","r","r","o","r">>)
            ELSE IF Len(results.items) = 0 THEN Raise(<<"I","n","d","e","x","E","r","r","o","r">>)
            ELSE results.items[1]

-----------------------------------------------------------------------------
(* typed_client.py *)

\* a comprehension that leaves out the elements that raised
Comprehension_skipping_failures(each) ==
    List(SelectSeq(each, LAMBDA e : ~IsRaise(e)))

\* the list a comprehension builds, or the exception its first failing
\* element raised
Comprehension(each) ==
    LET result(e) ==
            IF \E i \in 1..Len(e) : IsRaise(e[i])
            THEN e[CHOOSE i \in 1..Len(e) :
                      /\ IsRaise(e[i])
                      /\ \A j \in 1..(i-1) : ~IsRaise(e[j])]
            ELSE List(e)
    IN Once(Eager(each), result)

\* load_snake_case with a schema whose policy is EXCLUDE whatever self._meta
load_snake_case_excluding(cls, self_meta, x) ==
    LET sc == snake_case(x)
    IN IF IsRaise(sc) THEN sc ELSE load(cls, EXCLUDE, sc)

\* schema.load(snake_case(x))
load_snake_case(cls, self_meta, x) ==
    LET sc == snake_case(x)
    IN IF IsRaise(sc) THEN sc ELSE load(cls, self_meta, sc)

\* TypedClient.__init__ that takes any other value for EXCLUDE
TypedClient_init_lenient(unknown) ==
    IF unknown = Scalar(<<"R","A","I","S","E">>) THEN RAISE ELSE EXCLUDE

\* TypedClient.__init__: the value of self._meta["unknown"], "ValueError"
\* when the constructor raises
TypedClient_init(unknown) ==
    IF unknown = Scalar(<<"E","X","C","L","U","D","E">>) THEN EXCLUDE
    ELSE IF unknown = Scalar(<<"R","A","I","S","E">>) THEN RAISE
    ELSE "ValueError"

\* a TypedClient that requests with the flag of whatever Client was
\* constructed last
TypedClient_client_sharing_flag == standardize_variables

\* the Client a TypedClient makes its requests with
TypedClient_client_standardize_variables == TRUE

TypedClient_get_all_makes(self_meta, resp) ==
    LET makes == Client_get_all_makes(TypedClient_client_standardize_variables, resp)
    IN IF IsRaise(makes) THEN makes
       ELSE IF makes.t # "list" THEN Raise(<<"T","y","p","e","E","r","r","o","r">>)
       ELSE Comprehension([i \in 1..Len(makes.items) |->
                              load_snake_case(<<"M","a","k","e">>, self_meta, makes.items[i])])

TypedClient_get_vehicle_types_for_make(self_meta, resp) ==
    LET results == Client_get_vehicle_types_for_make(TypedClient_client_standardize_variables, resp)
    IN IF IsRaise(results) THEN results
       ELSE IF results.t # "list" THEN Raise(<<"T","y","p","e","E","r","r","o","r">>)
       ELSE LET snake_cased == Comprehension([i \in 1..Len(results.items) |->
                                                 snake_case(results.items[i])])
            IN IF IsRaise(snake_cased) THEN snake_cased
               ELSE Comprehension([i \in 1..Len(snake_cased.items) |->
                                      load(<<"V","e","h","i","c","l","e","T","y","p","e">>, self_meta, snake_cased.items[i])])

TypedClient_get_wmis_for_manufacturer(self_meta, manufacturer, vehicle_type, resp) ==
    LET wmis == Client_get_wmis_for_manufacturer(TypedClient_client_standardize_variables,
                                                 manufacturer, vehicle_type, resp)
    IN IF IsRaise(wmis) THEN wmis
       ELSE IF wmis.t # "list" THEN Raise(<<"T","y","p","e","E","r","r","o","r">>)
       ELSE Comprehension([i \in 1..Len(wmis.items) |->
                              load_snake_case(<<"W","o","r","l","d","M","a","n","u","f","a","c","t","u","r","e","r","I","n","d","e","x">>, self_meta, wmis.items[i])])

\* the loop of get_manufacturer_details over one result:
\* r["dbas"] = r["DBAs"]; del r["DBAs"]
rename_dbas(r) ==
    IF r.t # "dict" THEN Raise(<<"T","y","p","e","E","r","r","o","r">>)
    ELSE IF ~HasKey(r, <<"D","B","A","s">>) THEN Raise(<<"K","e","y","E","r","r","o","r">>)
    ELSE DelItem(SetItem(r, <<"d","b","a","s">>, GetItem(r, <<"D","B","A","s">>)), <<"D","B","A","s">>)

TypedClient_get_manufacturer_details(self_meta, resp) ==
    LET results == Client_get_manufacturer_details(TypedClient_client_standardize_variables, resp)
    IN IF IsRaise(results) THEN results
       ELSE IF results.t # "list" THEN Raise(<<"T","y","p","e","E","r","r","o","r">>)
       ELSE LET renamed == Comprehension([i \in 1..Len(results.items) |->
                                             rename_dbas(results.items[i])])
            IN IF IsRaise(renamed) THEN renamed
               ELSE LET snake_cased == Comprehension([i \in 1..Len(renamed.items) |->
                                                         snake_case(renamed.items[i])])
                    IN IF IsRaise(snake_cased) THEN snake_cased
                       ELSE Comprehension([i \in 1..Len(snake_cased.items) |->
                                              load(<<"M","a","n","u","f","a","c","t","u","r","e","r","D","e","t","a","i","l">>, self_meta,
                                                   snake_cased.items[i])])

\* get_all_manufacturers has no implementation
TypedClient_get_all_manufacturers == Raise(<<"N","o","t","I","m","p","l","e","m","e","n","t","e","d","E","r","r","o","r">>)

-----------------------------------------------------------------------------
(* Bounds *)

MaxLen == 2        \* longest list in an input
MaxEntries == 2    \* most entries in a mapping built from VariantKeys
MaxOmit == 1       \* most fields left out of a mapping handed to load

\* the sequences over S of length 0..n
RECURSIVE SeqsUpTo(_, _)
SeqsUpTo(S, n) ==
    IF n = 0 THEN {<<>>}
    ELSE LET shorter == SeqsUpTo(S, n - 1)
         IN shorter \cup {Append(q, x) : q \in {r \in shorter : Len(r) = n - 1}, x \in S}

\* the sequences over S of length 1..n without repetition
DistinctSeqs(S, n) ==
    {q \in SeqsUpTo(S, n) : Len(q) >= 1 /\ \A i, j \in 1..Len(q) : i # j => q[i] # q[j]}

-----------------------------------------------------------------------------
(* Inputs of the transforms *)

\* keys as the vPIC API sends them: the keys of the three tables, the
\* canonical names, names no table knows, keys of Vehicle variables and
\* keys that are already snake case
UpstreamKeys == {
    <<"I","D">>, <<"G","C","W","R">>, <<"G","C","W","R","_","t","o">>, <<"G","V","W","R">>, <<"G","V","W","R","_","t","o">>,
    <<"M","a","k","e","_","I","D">>, <<"M","a","k","e","I","D">>, <<"M","a","k","e","_","N","a","m","e">>, <<"M","a","k","e","N","a","m","e">>,
    <<"M","f","r","_","C","o","m","m","o","n","N","a","m","e">>, <<"M","f","r","_","I","D">>, <<"M","f","r","_","N","a","m","e">>, <<"M","a","n","u","f","a","c","t","u","r","e","r","N","a","m","e">>, <<"M","f","r","I","d">>, <<"M","f","r","N","a","m","e">>,
    <<"M","o","d","e","l","_","I","D">>, <<"M","o","d","e","l","_","N","a","m","e">>, <<"M","o","d","e","l","N","a","m","e">>, <<"M","o","d","e","l","I","D">>, <<"V","e","h","i","c","l","e","T","y","p","e","N","a","m","e">>,
    <<"M","a","n","u","f","a","c","t","u","r","e","r","_","N","a","m","e">>, <<"I","d">>, <<"M","a","k","e","I","d">>, <<"M","a","k","e">>, <<"M","a","n","u","f","a","c","t","u","r","e","r","I","d">>, <<"M","a","n","u","f","a","c","t","u","r","e","r">>,
    <<"M","a","n","u","f","a","c","t","u","r","e","r","C","o","m","m","o","n","N","a","m","e">>, <<"M","o","d","e","l","I","d">>, <<"M","o","d","e","l">>, <<"V","e","h","i","c","l","e","T","y","p","e">>,
    <<"C","o","u","n","t","r","y">>, <<"N","a","m","e">>, <<"I","s","P","r","i","m","a","r","y">>, <<"D","B","A","s">>, <<"C","o","v","e","r","L","e","t","t","e","r","U","R","L">>, <<"U","R","L">>, <<"r","e","s","u","l","t","s">>, <<>> }

VehicleKeys == {
    <<"M","o","d","e","l","Y","e","a","r">>, <<"G","V","W","R","F","r","o","m">>, <<"G","V","W","R","T","o">>, <<"G","C","W","R","F","r","o","m">>, <<"G","C","W","R","T","o">>, <<"D","O","T","C","o","d","e">>,
    <<"N","C","S","A","B","o","d","y","T","y","p","e">>, <<"N","C","S","A","M","a","k","e">>, <<"N","C","S","A","M","a","p","E","x","c","A","p","p","r","o","v","e","d","B","y">>, <<"N","C","S","A","M","a","p","E","x","c","A","p","p","r","o","v","e","d","O","n">>,
    <<"N","C","S","A","M","a","p","p","i","n","g","E","x","c","e","p","t","i","o","n">>, <<"N","C","S","A","M","o","d","e","l">>, <<"N","C","S","A","N","o","t","e">>,
    <<"S","A","E","A","u","t","o","m","a","t","i","o","n","L","e","v","e","l">>, <<"S","A","E","A","u","t","o","m","a","t","i","o","n","L","e","v","e","l","_","t","o">>, <<"E","V","D","r","i","v","e","U","n","i","t">>,
    <<"A","B","S">>, <<"B","a","t","t","e","r","y","K","W","h">>, <<"V","I","N">>, <<"T","P","M","S">>, <<"E","n","g","i","n","e","H","P","_","t","o">>, <<"C","A","N","_","A","A","C","N">> }

SnakeKeys == {
    <<"n","c","s","a","_","b","o","d","y","_","t","y","p","e">>, <<"s","a","e","_","a","u","t","o","m","a","t","i","o","n","_","l","e","v","e","l">>, <<"g","v","w","r","_","f","r","o","m">>, <<"g","c","w","r","_","t","o">>, <<"d","o","t","_","c","o","d","e">>,
    <<"e","v","_","d","r","i","v","e","_","u","n","i","t">>, <<"m","o","d","e","l","_","y","e","a","r">>, <<"m","a","n","u","f","a","c","t","u","r","e","r","_","i","d">>, <<"m","a","k","e">>, <<"v","i","n">> }

\* keys that name one concept, for mappings in which canonical names collide
VariantKeys == { <<"M","f","r","_","N","a","m","e">>, <<"M","f","r","N","a","m","e">>, <<"M","a","n","u","f","a","c","t","u","r","e","r">>, <<"C","o","u","n","t","r","y">> }

Value1 == Scalar(<<"9","8","8">>)
Value2 == Scalar(<<"H","O","N","D","A">>)

\* one-entry mappings over every key
SingleDicts == {Dict(<<Entry(key, Value1)>>) : key \in UpstreamKeys \cup VehicleKeys \cup SnakeKeys}

\* mappings of up to MaxEntries entries over the variant keys
VariantDicts ==
    {Dict([i \in 1..Len(q) |-> Entry(q[i], IF i = 1 THEN Value1 ELSE Value2)]) :
        q \in DistinctSeqs(VariantKeys, MaxEntries)}

NestKeys == { <<"M","f","r","_","I","D">>, <<"G","V","W","R","F","r","o","m">>, <<"N","a","m","e">> }
Leaves == {Dict(<<Entry(key, Value1)>>) : key \in NestKeys} \cup {Value2, None}

\* lists of leaves, and mappings that hold a list, a mapping or a list of lists
NestedObjects ==
    LET lists == {List(q) : q \in SeqsUpTo(Leaves, MaxLen)}
    IN lists
       \cup {Dict(<<Entry(<<"V","e","h","i","c","l","e","T","y","p","e","s">>, l), Entry(<<"M","f","r","_","N","a","m","e">>, Value2)>>) : l \in lists}
       \cup {Dict(<<Entry(<<"S","e","a","r","c","h","C","r","i","t","e","r","i","a">>, d)>>) : d \in Leaves}
       \cup {List(<<l>>) : l \in lists}

\* an element of GetAllManufacturers
ManufacturerRaw(name, common_name) ==
    Dict(<<Entry(<<"M","f","r","_","I","D">>, Value1), Entry(<<"M","f","r","_","N","a","m","e">>, name),
           Entry(<<"M","f","r","_","C","o","m","m","o","n","N","a","m","e">>, common_name)>>)

ManufacturerRaws ==
    {ManufacturerRaw(name, common_name) :
        name \in {Value2, Scalar(<<"T","E","S","L","A",","," ","I","N","C",".">>)}, common_name \in {Scalar(<<"H","o","n","d","a">>), None}}

Objects ==
    SingleDicts \cup VariantDicts \cup NestedObjects \cup ManufacturerRaws \cup {Value1, None}

-----------------------------------------------------------------------------
(* The caller makes one call at a time: a call starts when the caller is    *)
(* idle (op = "idle", the guard of every call action) and leaves its        *)
(* outcome in ret; Forget is the caller dropping the outcome before it      *)
(* calls again.                                                              *)

Call(name, input, output) ==
    /\ op' = name
    /\ arg' = input
    /\ ret' = output

\* a call that sends one HTTP request and gets resp
Request(name, resp, output) ==
    /\ Call(name, resp, output)
    /\ http_calls' = http_calls + 1

call_standardize ==
    /\ op = "idle"
    /\ \E object \in Objects : Call("standardize", object, standardize(object))
    /\ UNCHANGED <<meta, standardize_variables, http_calls>>

call_ClientBase_standardize_variable_names ==
    /\ op = "idle"
    /\ \E object \in Objects :
          Call("_standardize_variable_names", object, _standardize_variable_names(object))
    /\ UNCHANGED <<meta, standardize_variables, http_calls>>

call_standardize_variable_names ==
    /\ op = "idle"
    /\ \E object \in Objects :
          Call("standardize_variable_names", object, standardize_variable_names(object))
    /\ UNCHANGED <<meta, standardize_variables, http_calls>>

call_snake_case ==
    /\ op = "idle"
    /\ \E object \in Objects : Call("snake_case", object, snake_case(object))
    /\ UNCHANGED <<meta, standardize_variables, http_calls>>

\* Client() and TypedClient() with their default arguments, nothing called yet
Init ==
    /\ meta = EXCLUDE
    /\ standardize_variables = TRUE
    /\ http_calls = 0
    /\ op = "idle"
    /\ arg = None
    /\ ret = None

Forget ==
    /\ op # "idle"
    /\ op' = "idle"
    /\ arg' = None
    /\ ret' = None
    /\ http_calls' = 0
    /\ UNCHANGED <<meta, standardize_variables>>

NextTransforms ==
    \/ call_standardize
    \/ call_ClientBase_standardize_variable_names
    \/ call_standardize_variable_names
    \/ call_snake_case
    \/ Forget

SpecTransforms == Init /\ [][NextTransforms]_vars

-----------------------------------------------------------------------------
(* Inputs of the typed mapper *)

\* a mapping that holds every field of cls: a scalar field holds its own
\* name, a list of dataclasses holds one complete element
RECURSIVE Complete(_)
Complete(cls) ==
    LET fields == models[cls]
    IN Dict([i \in 1..Len(fields) |->
                Entry(fields[i].name,
                      IF fields[i].nested = <<>> THEN Scalar(fields[i].name)
                      ELSE List(<<Complete(fields[i].nested)>>))])

\* Complete(cls) without the fields first..first+len-1, with an undeclared
\* key when extra
LoadInput(cls, first, len, extra) ==
    LET fields == models[cls]
        kept == SelectSeq(Complete(cls).items,
                          LAMBDA e : \A i \in first..(first + len - 1) :
                                        i > Len(fields) \/ fields[i].name # e.k)
    IN Dict(IF extra THEN Append(kept, Entry(<<"n","e","w","_","v","a","r","i","a","b","l","e">>, Value1)) ELSE kept)

\* desert.schema(cls, meta=self._meta).load(data), as every typed method
\* calls it
call_load ==
    /\ op = "idle"
    /\ \E cls \in DOMAIN models, len \in 0..MaxOmit, extra \in BOOLEAN :
          \E first \in IF len = 0 THEN {1} ELSE 1..Len(models[cls]) :
             \E data \in {LoadInput(cls, first, len, extra)} :
                Call("load", [cls |-> cls, data |-> data], load(cls, meta, data))
    /\ UNCHANGED <<meta, standardize_variables, http_calls>>

\* record.name = value on a record the typed mapper returned
call_setattr ==
    /\ op = "idle"
    /\ \E cls \in DOMAIN models :
          \E i \in 1..Len(models[cls]), record \in {load(cls, meta, Complete(cls))} :
             Call("setattr", [record |-> record, name |-> models[cls][i].name],
                  dataclass_setattr(record, models[cls][i].name, Value1))
    /\ UNCHANGED <<meta, standardize_variables, http_calls>>

\* del record.name on a record the typed mapper returned
call_delattr ==
    /\ op = "idle"
    /\ \E cls \in DOMAIN models :
          \E i \in 1..Len(models[cls]), record \in {load(cls, meta, Complete(cls))} :
             Call("delattr", [record |-> record, name |-> models[cls][i].name],
                  dataclass_delattr(record, models[cls][i].name))
    /\ UNCHANGED <<meta, standardize_variables, http_calls>>

\* a == b for two records the typed mapper built from the same mapping
call_eq ==
    /\ op = "idle"
    /\ \E cls \in DOMAIN models, len \in 0..MaxOmit :
          \E first \in IF len = 0 THEN {1} ELSE 1..Len(models[cls]) :
             \E data \in {LoadInput(cls, first, len, FALSE)} :
                \E a \in {load(cls, meta, data)}, b \in {load(cls, meta, data)} :
                   /\ a.t = "record"
                   /\ Call("__eq__", [cls |-> cls, data |-> data], dataclass_eq(a, b))
    /\ UNCHANGED <<meta, standardize_variables, http_calls>>

-----------------------------------------------------------------------------
(* Responses of the vPIC API *)

JsonCharset == Dict(<<Entry(<<"c","o","n","t","e","n","t","-","t","y","p","e">>, Scalar(<<"a","p","p","l","i","c","a","t","i","o","n","/","j","s","o","n",";"," ","c","h","a","r","s","e","t","=","u","t","f","-","8">>))>>)
OK == 200

Results(results) == Response(OK, JsonCharset, Dict(<<Entry(<<"R","e","s","u","l","t","s">>, List(results))>>))

ParametersDictionary ==
    Dict(<<Entry(<<"m","e","s","s","a","g","e">>, Scalar(<<"T","h","e"," ","r","e","q","u","e","s","t"," ","i","s"," ","i","n","v","a","l","i","d",".">>)),
           Entry(<<"m","e","s","s","a","g","e","D","e","t","a","i","l">>, Scalar(<<"T","h","e"," ","p","a","r","a","m","e","t","e","r","s"," ","d","i","c","t","i","o","n","a","r","y"," ","c","o","n","t","a","i","n","s"," ","a"," ","n","u","l","l"," ","e","n","t","r","y">>))>>)

NoActionFound ==
    Dict(<<Entry(<<"m","e","s","s","a","g","e">>, Scalar(<<"N","o"," ","H","T","T","P"," ","r","e","s","o","u","r","c","e"," ","w","a","s"," ","f","o","u","n","d">>)),
           Entry(<<"m","e","s","s","a","g","e","D","e","t","a","i","l">>, Scalar(<<"N","o"," ","a","c","t","i","o","n"," ","w","a","s"," ","f","o","u","n","d"," ","o","n"," ","t","h","e"," ","c","o","n","t","r","o","l","l","e","r">>))>>)

ErrorBodies == {
    ParametersDictionary,
    NoActionFound,
    Dict(<<Entry(<<"m","e","s","s","a","g","e">>, Scalar(<<"A","n"," ","e","r","r","o","r"," ","h","a","s"," ","o","c","c","u","r","r","e","d",".">>))>>),
    Dict(<<Entry(<<"m","e","s","s","a","g","e","D","e","t","a","i","l">>, Scalar(<<"T","h","e"," ","p","a","r","a","m","e","t","e","r","s"," ","d","i","c","t","i","o","n","a","r","y"," ","i","s"," ","e","m","p","t","y">>))>>),
    Dict(<<>>),
    List(<<>>),
    Text(<<"<","h","t","m","l",">","S","e","r","v","i","c","e"," ","U","n","a","v","a","i","l","a","b","l","e","<","/","h","t","m","l",">">>) }

ErrorHeaders == {
    Dict(<<>>),
    Dict(<<Entry(<<"c","o","n","t","e","n","t","-","t","y","p","e">>, Scalar(<<"a","p","p","l","i","c","a","t","i","o","n","/","j","s","o","n">>))>>),
    JsonCharset,
    Dict(<<Entry(<<"c","o","n","t","e","n","t","-","t","y","p","e">>, Scalar(<<"t","e","x","t","/","h","t","m","l">>))>>) }

ErrorStatusCodes == {400, 401, 404, 429, 500, 503}

ErrorResponses ==
    {Response(code, headers, body) :
        code \in ErrorStatusCodes, headers \in ErrorHeaders, body \in ErrorBodies}

\* the failures a method call of the clients meets
MethodErrorResponses == {
    Response(404, Dict(<<>>), NoActionFound),
    Response(400, JsonCharset, Dict(<<Entry(<<"R","e","s","u","l","t","s">>, List(<<Dict(<<Entry(<<"M","a","k","e","_","I","D">>, Value1)>>)>>))>>)),
    Response(503, Dict(<<Entry(<<"c","o","n","t","e","n","t","-","t","y","p","e">>, Scalar(<<"t","e","x","t","/","h","t","m","l">>))>>),
             Text(<<"<","h","t","m","l",">","S","e","r","v","i","c","e"," ","U","n","a","v","a","i","l","a","b","l","e","<","/","h","t","m","l",">">>)) }

MakeElements == {
    Dict(<<Entry(<<"M","a","k","e","_","I","D">>, Scalar(<<"4","4","0">>)), Entry(<<"M","a","k","e","_","N","a","m","e">>, Scalar(<<"A","S","T","O","N"," ","M","A","R","T","I","N">>))>>),
    Dict(<<Entry(<<"M","a","k","e","_","I","D">>, Scalar(<<"4","4","1">>)), Entry(<<"M","a","k","e","_","N","a","m","e">>, Scalar(<<"T","E","S","L","A">>))>>),
    Dict(<<Entry(<<"M","a","k","e","_","I","D">>, Scalar(<<"4","4","0">>)), Entry(<<"M","a","k","e">>, Scalar(<<"A","S","T","O","N"," ","M","A","R","T","I","N">>))>>),
    Dict(<<Entry(<<"M","a","k","e","_","I","D">>, Scalar(<<"4","4","1">>)), Entry(<<"M","a","k","e">>, Scalar(<<"T","E","S","L","A">>)),
           Entry(<<"N","e","w","V","a","r","i","a","b","l","e">>, Value1)>>),
    Dict(<<Entry(<<"M","a","k","e">>, Scalar(<<"T","E","S","L","A">>))>>) }

VehicleTypeElements == {
    Dict(<<Entry(<<"V","e","h","i","c","l","e","T","y","p","e","I","d">>, Scalar(<<"2">>)),
           Entry(<<"V","e","h","i","c","l","e","T","y","p","e","N","a","m","e">>, Scalar(<<"P","a","s","s","e","n","g","e","r"," ","C","a","r">>))>>),
    Dict(<<Entry(<<"V","e","h","i","c","l","e","T","y","p","e","I","d">>, Scalar(<<"3">>)),
           Entry(<<"V","e","h","i","c","l","e","T","y","p","e","N","a","m","e">>, Scalar(<<"T","r","u","c","k">>)),
           Entry(<<"N","e","w","V","a","r","i","a","b","l","e">>, Value1)>>),
    Dict(<<Entry(<<"N","a","m","e">>, Scalar(<<"T","r","a","i","l","e","r">>)), Entry(<<"I","s","P","r","i","m","a","r","y">>, Scalar(<<"f","a","l","s","e">>))>>) }

\* an element of GetManufacturerDetails; name_key is the key of the name
ManufacturerDetailElement(name_key, with_dbas) ==
    Dict(<<Entry(<<"M","f","r","_","I","D">>, Scalar(<<"9","8","8">>)),
           Entry(name_key, Scalar(<<"H","O","N","D","A">>)),
           Entry(<<"M","f","r","_","C","o","m","m","o","n","N","a","m","e">>, Scalar(<<"H","o","n","d","a">>)),
           Entry(<<"M","a","n","u","f","a","c","t","u","r","e","r","T","y","p","e","s">>,
                 List(<<Dict(<<Entry(<<"N","a","m","e">>, Scalar(<<"C","o","m","p","l","e","t","e","d"," ","V","e","h","i","c","l","e"," ","M","a","n","u","f","a","c","t","u","r","e","r">>))>>)>>)),
           Entry(<<"V","e","h","i","c","l","e","T","y","p","e","s">>,
                 List(<<Dict(<<Entry(<<"N","a","m","e">>, Scalar(<<"P","a","s","s","e","n","g","e","r"," ","C","a","r">>)),
                               Entry(<<"I","s","P","r","i","m","a","r","y">>, Scalar(<<"t","r","u","e">>)),
                               Entry(<<"G","V","W","R","F","r","o","m">>, Scalar(<<"C","l","a","s","s"," ","1">>)),
                               Entry(<<"G","V","W","R","T","o">>, Scalar(<<"C","l","a","s","s"," ","2">>))>>)>>)),
           Entry(<<"C","o","u","n","t","r","y">>, Scalar(<<"U","N","I","T","E","D"," ","S","T","A","T","E","S"," ","(","U","S","A",")">>))>>
         \o IF with_dbas THEN <<Entry(<<"D","B","A","s">>, None)>> ELSE <<>>)

ManufacturerDetailElements == {
    ManufacturerDetailElement(<<"M","f","r","_","N","a","m","e">>, TRUE),
    ManufacturerDetailElement(<<"M","a","n","u","f","a","c","t","u","r","e","r">>, TRUE),
    ManufacturerDetailElement(<<"M","f","r","_","N","a","m","e">>, FALSE) }

\* elements of GetWMIsForManufacturer: with Id and Name, without either,
\* and with a null Id beside the names the record keeps
WMIElements ==
    LET element(entries) ==
            Dict(<<Entry(<<"C","r","e","a","t","e","d","O","n">>, Scalar(<<"2","0","1","5","-","0","3","-","2","6">>)),
                   Entry(<<"D","a","t","e","A","v","a","i","l","a","b","l","e","T","o","P","u","b","l","i","c">>, Scalar(<<"2","0","1","5","-","0","1","-","0","1">>)),
                   Entry(<<"V","e","h","i","c","l","e","T","y","p","e">>, Scalar(<<"P","a","s","s","e","n","g","e","r"," ","C","a","r">>)),
                   Entry(<<"W","M","I">>, Scalar(<<"J","H","M">>))>> \o entries)
    IN { element(<<Entry(<<"I","d">>, Scalar(<<"9","8","7">>)), Entry(<<"N","a","m","e">>, Value2)>>),
         element(<<>>),
         element(<<Entry(<<"I","d">>, None), Entry(<<"M","a","n","u","f","a","c","t","u","r","e","r","I","d">>, Value1), Entry(<<"M","a","n","u","f","a","c","t","u","r","e","r">>, Value2)>>),
         element(<<Entry(<<"I","d">>, Scalar(<<"9","8","7">>)), Entry(<<"N","a","m","e">>, Value2),
                   Entry(<<"M","a","n","u","f","a","c","t","u","r","e","r","I","d">>, Value1), Entry(<<"M","a","n","u","f","a","c","t","u","r","e","r">>, Scalar(<<"A","C","U","R","A">>))>>) }

\* elements of DecodeVinValues, DecodeVin and DecodeWMI
DecodeElements == {
    Dict(<<Entry(<<"M","a","k","e">>, Scalar(<<"F","O","R","D">>)), Entry(<<"M","a","k","e","I","D">>, Scalar(<<"4","6","0">>)),
           Entry(<<"M","o","d","e","l","I","D">>, Scalar(<<"1","8","0","1">>))>>),
    Dict(<<Entry(<<"V","a","l","u","e">>, Scalar(<<"F","O","R","D">>)), Entry(<<"V","a","l","u","e","I","d">>, Scalar(<<"4","6","0">>)),
           Entry(<<"V","a","r","i","a","b","l","e">>, Scalar(<<"M","a","k","e">>)), Entry(<<"V","a","r","i","a","b","l","e","I","d">>, Scalar(<<"2","6">>))>>),
    Dict(<<Entry(<<"C","o","m","m","o","n","N","a","m","e">>, Scalar(<<"F","o","r","d">>)), Entry(<<"M","f","r","_","N","a","m","e">>, Scalar(<<"F","O","R","D"," ","M","O","T","O","R"," ","C","O","M","P","A","N","Y",","," ","U","S","A">>)),
           Entry(<<"V","e","h","i","c","l","e","T","y","p","e">>, Scalar(<<"T","r","u","c","k"," ">>))>>) }

ResponsesOf(elements) ==
    {Results(results) : results \in SeqsUpTo(elements, MaxLen)}
       \cup {Response(399, JsonCharset, Dict(<<Entry(<<"R","e","s","u","l","t","s">>, List(<<>>))>>))}
       \cup MethodErrorResponses

-----------------------------------------------------------------------------
(* The clients *)

\* TypedClient(unknown=unknown)
call_TypedClient ==
    /\ op = "idle"
    /\ \E unknown \in {Scalar(<<"E","X","C","L","U","D","E">>), Scalar(<<"R","A","I","S","E">>), Scalar(<<"I","N","C","L","U","D","E">>),
                       Scalar(<<"e","x","c","l","u","d","e">>), None} :
          LET self_meta == TypedClient_init(unknown)
          IN /\ op' = "TypedClient"
             /\ arg' = unknown
             /\ IF self_meta = "ValueError"
                THEN ret' = Raise(<<"V","a","l","u","e","E","r","r","o","r">>) /\ meta' = meta
                ELSE ret' = None /\ meta' = self_meta
    /\ UNCHANGED <<standardize_variables, http_calls>>

\* Client(standardize_variables=flag)
call_Client ==
    /\ op = "idle"
    /\ \E flag \in BOOLEAN :
          /\ op' = "Client"
          /\ arg' = Scalar(<<"s","t","a","n","d","a","r","d","i","z","e","_","v","a","r","i","a","b","l","e","s">>)
          /\ ret' = None
          /\ standardize_variables' = flag
    /\ UNCHANGED <<meta, http_calls>>

call_Client_get_all_makes ==
    /\ op = "idle"
    /\ \E resp \in ResponsesOf(MakeElements) :
          Request("Client.get_all_makes", resp,
                  Client_get_all_makes(standardize_variables, resp))
    /\ UNCHANGED <<meta, standardize_variables>>

call_Client_decode_vin ==
    /\ op = "idle"
    /\ \E vin \in {None, Scalar(<<"1","F","T","M","W">>), Scalar(<<"5","U","X","W","X","7">>), Scalar(<<"1","F","T","M","W","1","T","8","8","M","F","A","0","0","0","0","1">>),
                   Scalar(<<"1","F","T","M","W","1","T","8","8","M","F","A","0","0","0","0","1","2">>)},
          model_year \in {None} \cup {[t |-> "int", n |-> year] : year \in {0, 1980, 1981}},
          flatten \in BOOLEAN :
          LET input(resp) == [vin |-> vin, model_year |-> model_year, flatten |-> flatten,
                              resp |-> resp]
          \* the arguments are refused before any request is made
          IN IF Client_decode_vin(standardize_variables, vin, model_year, flatten, Results(<<>>))
                   = Raise(<<"V","a","l","u","e","E","r","r","o","r">>)
             THEN /\ Call("Client.decode_vin", input(None),
                          Client_decode_vin(standardize_variables, vin, model_year, flatten, None))
                  /\ http_calls' = http_calls
             ELSE \E resp \in ResponsesOf(DecodeElements) :
                     Request("Client.decode_vin", input(resp),
                             Client_decode_vin(standardize_variables, vin, model_year, flatten, resp))
    /\ UNCHANGED <<meta, standardize_variables>>

call_Client_decode_wmi ==
    /\ op = "idle"
    /\ \E wmi \in {Scalar(<<"1","F">>), Scalar(<<"1","F","T">>), Scalar(<<"1","F","T","1","2","3">>)} :
          LET input(resp) == [wmi |-> wmi, resp |-> resp]
          IN IF Client_decode_wmi(standardize_variables, wmi, Results(<<>>)) = Raise(<<"V","a","l","u","e","E","r","r","o","r">>)
             THEN /\ Call("Client.decode_wmi", input(None),
                          Client_decode_wmi(standardize_variables, wmi, None))
                  /\ http_calls' = http_calls
             ELSE \E resp \in ResponsesOf(DecodeElements) :
                     Request("Client.decode_wmi", input(resp),
                             Client_decode_wmi(standardize_variables, wmi, resp))
    /\ UNCHANGED <<meta, standardize_variables>>

call_Client_decode_vin_batch ==
    /\ op = "idle"
    /\ \E vins \in {None} \cup {List([i \in 1..n |-> Scalar(<<"5","U","X","W","X","7","C","5","*","B","A",",","2","0","1","1">>)]) : n \in {0, 1, 2, 51}} :
          LET input(resp) == [vins |-> vins, resp |-> resp]
          IN IF Client_decode_vin_batch(standardize_variables, vins, Results(<<>>)) = Raise(<<"V","a","l","u","e","E","r","r","o","r">>)
             THEN /\ Call("Client.decode_vin_batch", input(None),
                          Client_decode_vin_batch(standardize_variables, vins, None))
                  /\ http_calls' = http_calls
             ELSE \E resp \in ResponsesOf(DecodeElements) :
                     Request("Client.decode_vin_batch", input(resp),
                             Client_decode_vin_batch(standardize_variables, vins, resp))
    /\ UNCHANGED <<meta, standardize_variables>>

call_TypedClient_get_all_makes ==
    /\ op = "idle"
    /\ \E resp \in ResponsesOf(MakeElements) :
          Request("TypedClient.get_all_makes", resp, TypedClient_get_all_makes(meta, resp))
    /\ UNCHANGED <<meta, standardize_variables>>

call_TypedClient_get_vehicle_types_for_make ==
    /\ op = "idle"
    /\ \E resp \in ResponsesOf(VehicleTypeElements) :
          Request("TypedClient.get_vehicle_types_for_make", resp,
                  TypedClient_get_vehicle_types_for_make(meta, resp))
    /\ UNCHANGED <<meta, standardize_variables>>

call_TypedClient_get_manufacturer_details ==
    /\ op = "idle"
    /\ \E resp \in ResponsesOf(ManufacturerDetailElements) :
          Request("TypedClient.get_manufacturer_details", resp,
                  TypedClient_get_manufacturer_details(meta, resp))
    /\ UNCHANGED <<meta, standardize_variables>>

call_TypedClient_get_wmis_for_manufacturer ==
    /\ op = "idle"
    /\ \E manufacturer \in {None, Value2}, vehicle_type \in {None, Scalar(<<"c","a","r">>)} :
          IF manufacturer = None /\ vehicle_type = None
          THEN /\ Call("TypedClient.get_wmis_for_manufacturer", None,
                       TypedClient_get_wmis_for_manufacturer(meta, manufacturer, vehicle_type, None))
               /\ http_calls' = http_calls
          ELSE \E resp \in ResponsesOf(WMIElements) :
                  Request("TypedClient.get_wmis_for_manufacturer", resp,
                          TypedClient_get_wmis_for_manufacturer(meta, manufacturer, vehicle_type, resp))
    /\ UNCHANGED <<meta, standardize_variables>>

call_TypedClient_get_all_manufacturers ==
    /\ op = "idle"
    /\ Call("TypedClient.get_all_manufacturers", None, TypedClient_get_all_manufacturers)
    /\ UNCHANGED <<meta, standardize_variables, http_calls>>

Next ==
    \/ call_TypedClient
    \/ call_Client
    \/ call_load
    \/ call_setattr
    \/ call_delattr
    \/ call_eq
    \/ call_Client_get_all_makes
    \/ call_Client_decode_vin
    \/ call_Client_decode_wmi
    \/ call_Client_decode_vin_batch
    \/ call_TypedClient_get_all_makes
    \/ call_TypedClient_get_vehicle_types_for_make
    \/ call_TypedClient_get_wmis_for_manufacturer
    \/ call_TypedClient_get_manufacturer_details
    \/ call_TypedClient_get_all_manufacturers
    \/ Forget

Spec == Init /\ [][Next]_vars

-----------------------------------------------------------------------------
(* The error classifier called on its own *)

call_handle_error_response ==
    /\ op = "idle"
    /\ \E resp \in ErrorResponses :
          Call("handle_error_response", resp, handle_error_response(resp))
    /\ UNCHANGED <<meta, standardize_variables, http_calls>>

NextErrors ==
    \/ call_handle_error_response
    \/ Forget

SpecErrors == Init /\ [][NextErrors]_vars

-----------------------------------------------------------------------------
(* Properties of the canonicaliser *)

Canonicalisers == {"standardize", "_standardize_variable_names"}

TableOf(name) ==
    IF name = "standardize" THEN transforms_STANDARD_VARIABLE_NAMES
    ELSE IF name = "_standardize_variable_names" THEN client_base_STANDARD_VARIABLE_NAMES
    ELSE STANDARD_VARIABLE_NAMES

\* the upstream variants of one concept and the canonical key of the concept
Concepts == {
    [variants |-> {<<"M","f","r","_","I","D">>, <<"M","f","r","I","d">>}, canonical |-> <<"M","a","n","u","f","a","c","t","u","r","e","r","I","d">>],
    [variants |-> {<<"M","a","k","e","_","I","D">>, <<"M","a","k","e","I","D">>}, canonical |-> <<"M","a","k","e","I","d">>],
    [variants |-> {<<"M","o","d","e","l","_","I","D">>, <<"M","o","d","e","l","I","D">>}, canonical |-> <<"M","o","d","e","l","I","d">>] }

\* C4: in the table of the request path and in the table of
\* transforms.standardize, the variants of one concept (Mfr_ID and MfrId,
\* Make_ID and MakeID, Model_ID and ModelID) are rewritten to the one
\* canonical key of the concept (ManufacturerId, MakeId, ModelId), and the
\* variant itself is no longer a key of the result.
C4_VariantsGetOneCanonicalKey ==
    (op \in Canonicalisers /\ arg.t = "dict") =>
        \A i \in 1..Len(arg.items) : \A c \in Concepts :
            arg.items[i].k \in c.variants =>
                /\ ret.t = "dict"
                /\ HasKey(ret, c.canonical)
                /\ ~HasKey(ret, arg.items[i].k)
                /\ \A v \in c.variants : TableOf(op)[v] = c.canonical

C4_Witness ==
    /\ op = "_standardize_variable_names"
    /\ arg = Dict(<<Entry(<<"M","a","k","e","I","D">>, Value1)>>)
    /\ ret = Dict(<<Entry(<<"M","a","k","e","I","d">>, Value1)>>)

\* what the claim C5 allows the canonicaliser with this table to turn x into
RECURSIVE OnlyTableKeysChanged(_, _, _)
OnlyTableKeysChanged(table, x, y) ==
    IF x.t = "dict"
    THEN /\ y.t = "dict"
         \* a key the table lacks is kept
         /\ \A i \in 1..Len(x.items) :
               x.items[i].k \notin DOMAIN table => HasKey(y, x.items[i].k)
         \* every entry of the result is an entry of the input, its key
         \* rewritten by the table or kept, its value canonicalised
         /\ \A j \in 1..Len(y.items) : \E i \in 1..Len(x.items) :
               /\ y.items[j].k = IF x.items[i].k \in DOMAIN table
                                 THEN table[x.items[i].k] ELSE x.items[i].k
               /\ OnlyTableKeysChanged(table, x.items[i].v, y.items[j].v)
    ELSE IF x.t = "list"
    THEN /\ y.t = "list"
         /\ Len(y.items) = Len(x.items)
         /\ \A i \in 1..Len(x.items) : OnlyTableKeysChanged(table, x.items[i], y.items[i])
    ELSE y = x

\* C5: canonicalisation changes only keys found in the lookup table: at every
\* depth a key absent from the table is kept, a scalar leaf is the input's,
\* a list keeps its length and order, and mappings inside lists and inside
\* mappings are canonicalised in the same way.
C5_OnlyTableKeysChange ==
    op \in Canonicalisers => OnlyTableKeysChanged(TableOf(op), arg, ret)

C5_Witness ==
    /\ op = "standardize"
    /\ arg = Dict(<<Entry(<<"V","e","h","i","c","l","e","T","y","p","e","s">>,
                          List(<<Dict(<<Entry(<<"M","f","r","_","I","D">>, Value1)>>), Value2>>)),
                    Entry(<<"M","f","r","_","N","a","m","e">>, Value2)>>)
    /\ ret = Dict(<<Entry(<<"V","e","h","i","c","l","e","T","y","p","e","s">>,
                          List(<<Dict(<<Entry(<<"M","a","n","u","f","a","c","t","u","r","e","r","I","d">>, Value1)>>), Value2>>)),
                    Entry(<<"M","a","n","u","f","a","c","t","u","r","e","r">>, Value2)>>)

-----------------------------------------------------------------------------
(* Properties of the canonical names *)

\* C24: canonicalising a mapping that has one of the keys Mfr_Name, MfrName
\* and Manufacturer_Name gives a mapping that has the key Manufacturer, with
\* the value of the variant when it is the only entry, and none of the three.
C24_ManufacturerNameUnified ==
    (op \in Canonicalisers /\ arg.t = "dict") =>
        \A variants \in {{<<"M","f","r","_","N","a","m","e">>, <<"M","f","r","N","a","m","e">>, <<"M","a","n","u","f","a","c","t","u","r","e","r","_","N","a","m","e">>}} :
           Keys(arg) \cap variants # {} =>
              /\ Keys(ret) \cap variants = {}
              /\ HasKey(ret, <<"M","a","n","u","f","a","c","t","u","r","e","r">>)
              /\ Len(arg.items) = 1 => ret = Dict(<<Entry(<<"M","a","n","u","f","a","c","t","u","r","e","r">>, arg.items[1].v)>>)

-----------------------------------------------------------------------------
(* Properties of snake_case *)

\* the keys whose snake case the Case Transformer documents
DocumentedSnakeCase ==
    <<"M","o","d","e","l","Y","e","a","r">> :> <<"m","o","d","e","l","_","y","e","a","r">> @@
    <<"G","V","W","R","F","r","o","m">> :> <<"g","v","w","r","_","f","r","o","m">> @@
    <<"G","V","W","R","T","o">> :> <<"g","v","w","r","_","t","o">> @@
    <<"G","C","W","R","F","r","o","m">> :> <<"g","c","w","r","_","f","r","o","m">> @@
    <<"G","C","W","R","T","o">> :> <<"g","c","w","r","_","t","o">> @@
    <<"D","O","T","C","o","d","e">> :> <<"d","o","t","_","c","o","d","e">>

DocumentedPrefixes ==
    <<"N","C","S","A">> :> <<"n","c","s","a","_">> @@ <<"S","A","E">> :> <<"s","a","e","_">> @@ <<"E","V","D","r","i","v","e">> :> <<"e","v","_","d","r","i","v","e">>

\* the maximal runs of uppercase letters of key, as <<first, last>>
UpperRuns(key) ==
    {r \in (1..Len(key)) \X (1..Len(key)) :
        /\ r[1] <= r[2]
        /\ \A p \in r[1]..r[2] : key[p] \in UPPER
        /\ (r[1] = 1 \/ key[r[1] - 1] \notin UPPER)
        /\ (r[2] = Len(key) \/ key[r[2] + 1] \notin UPPER)}

\* C6: snake_case takes a maximal run of uppercase letters as one token and
\* then applies the compound-word overrides: the documented keys get their
\* documented snake case, keys beginning NCSA, SAE and EVDrive begin ncsa_,
\* sae_ and ev_drive, the letters of an acronym (an uppercase run up to the
\* letter that starts the next word) stay together, and a key that began
\* with an uppercase letter gives no key that begins with a separator.
C6_SnakeCaseOfCanonicalKeys ==
    (op = "snake_case" /\ arg.t = "dict" /\ ~IsRaise(ret)) =>
        \A i \in 1..Len(arg.items) :
            LET key == arg.items[i].k
            IN /\ key \in DOMAIN DocumentedSnakeCase => HasKey(ret, DocumentedSnakeCase[key])
               /\ \A p \in DOMAIN DocumentedPrefixes :
                     startswith(key, p) =>
                        \E k \in Keys(ret) : startswith(k, DocumentedPrefixes[p])
               /\ \A r \in UpperRuns(key) :
                     r[2] > r[1] =>
                        \E k \in Keys(ret) : contains(k, lower(SubSeq(key, r[1], r[2] - 1)))
               /\ (key # <<>> /\ key[1] \in UPPER) =>
                     \A k \in Keys(ret) : k # <<>> /\ k[1] # "_"

C6_Witness ==
    /\ op = "snake_case"
    /\ arg = Dict(<<Entry(<<"G","V","W","R","F","r","o","m">>, Value1)>>)
    /\ ret = Dict(<<Entry(<<"g","v","w","r","_","f","r","o","m">>, Value1)>>)

\* keys in transformed form: lowercase letters and digits, single
\* separators between them
IsTransformed(key) ==
    /\ key # <<>>
    /\ \A p \in 1..Len(key) : key[p] \notin UPPER
    /\ key[1] # "_" /\ key[Len(key)] # "_"
    /\ ~contains(key, <<"_","_">>)

\* C7: snake_case leaves keys that are already in transformed form as they
\* are, so snake_case(snake_case(m)) = snake_case(m).
C7_SnakeCaseIdempotent ==
    (op = "snake_case" /\ arg.t = "dict" /\ ~IsRaise(ret)) =>
        /\ (\A k \in Keys(arg) : IsTransformed(k)) => Keys(ret) = Keys(arg)
        /\ ValueEq(snake_case(ret), ret)

-----------------------------------------------------------------------------
(* Properties of the typed mapper and of the typed client *)

\* the names of the fields of each dataclass, and of those without default
FieldNames ==
    [cls \in DOMAIN models |-> {models[cls][i].name : i \in 1..Len(models[cls])}]
RequiredNames ==
    [cls \in DOMAIN models |->
        {models[cls][i].name : i \in {j \in 1..Len(models[cls]) : models[cls][j].kind = "required"}}]
FieldNamed(cls, name) ==
    models[cls][CHOOSE i \in 1..Len(models[cls]) : models[cls][i].name = name]

Undeclared(cls, data) == Keys(data) \ FieldNames[cls]
MissingRequired(cls, data) == RequiredNames[cls] \ Keys(data)

\* the class a typed list method loads
ClassOf ==
    "TypedClient.get_all_makes" :> <<"M","a","k","e">> @@
    "TypedClient.get_vehicle_types_for_make" :> <<"V","e","h","i","c","l","e","T","y","p","e">> @@
    "TypedClient.get_manufacturer_details" :> <<"M","a","n","u","f","a","c","t","u","r","e","r","D","e","t","a","i","l">>

\* the elements of the Results of a successful response, canonicalised as
\* the request path does and snake cased
Cased(resp) ==
    LET each(results) ==
            [i \in 1..Len(results.items) |->
                Once(Once(results.items[i], _standardize_variable_names), snake_case)]
    IN Once(GetItem(resp.body, <<"R","e","s","u","l","t","s">>), each)

ElementwiseOps == {"TypedClient.get_all_makes", "TypedClient.get_vehicle_types_for_make"}

\* C1: typed mapping of an input with a key its record type does not declare
\* goes by the policy of the client: under EXCLUDE the record is built and
\* has no attribute of that name, under RAISE the mapping raises a
\* validation error and nothing is returned.
C1_UnknownFieldByPolicy ==
    /\ (op = "load" /\ Undeclared(arg.cls, arg.data) # {}) =>
          /\ meta = RAISE => ret = Raise(<<"V","a","l","i","d","a","t","i","o","n","E","r","r","o","r">>)
          /\ (meta = EXCLUDE /\ MissingRequired(arg.cls, arg.data) = {}) =>
                /\ ret.t = "record"
                /\ ret.s = arg.cls
                /\ \A k \in Undeclared(arg.cls, arg.data) : ~HasAttr(ret, k)
    /\ (op \in ElementwiseOps /\ arg.status_code = OK) =>
          \A cased \in {Cased(arg)}, cls \in {ClassOf[op]} :
             (\E i \in 1..Len(cased) : Undeclared(cls, cased[i]) # {}) =>
                /\ meta = RAISE => ret = Raise(<<"V","a","l","i","d","a","t","i","o","n","E","r","r","o","r">>)
                /\ (meta = EXCLUDE /\ \A i \in 1..Len(cased) : MissingRequired(cls, cased[i]) = {}) =>
                      /\ ret.t = "list"
                      /\ Len(ret.items) = Len(cased)
                      /\ \A i \in 1..Len(cased) :
                            /\ ret.items[i].t = "record"
                            /\ \A k \in Undeclared(cls, cased[i]) : ~HasAttr(ret.items[i], k)

C1_Witness ==
    /\ op = "TypedClient.get_vehicle_types_for_make"
    /\ meta = RAISE
    /\ arg.status_code = OK
    /\ \E cased \in {Cased(arg)} :
          /\ Len(cased) = 1
          /\ Undeclared(<<"V","e","h","i","c","l","e","T","y","p","e">>, cased[1]) = {<<"n","e","w","_","v","a","r","i","a","b","l","e">>}
    /\ ret = Raise(<<"V","a","l","i","d","a","t","i","o","n","E","r","r","o","r">>)

\* the attributes __post_init__ deletes, and the attribute each is copied to
Renamed(cls) ==
    IF cls = <<"V","e","h","i","c","l","e","T","y","p","e">> THEN <<"n","a","m","e">> :> <<"v","e","h","i","c","l","e","_","t","y","p","e">>
    ELSE IF cls = <<"W","o","r","l","d","M","a","n","u","f","a","c","t","u","r","e","r","I","n","d","e","x">>
    THEN <<"i","d">> :> <<"m","a","n","u","f","a","c","t","u","r","e","r","_","i","d">> @@ <<"n","a","m","e">> :> <<"m","a","n","u","f","a","c","t","u","r","e","r">>
    ELSE <<>>

RenameTargets(cls) == {Renamed(cls)[k] : k \in DOMAIN Renamed(cls)}

\* data is valid for cls under the policy in force but for what it omits
Loadable(cls, data) ==
    /\ MissingRequired(cls, data) = {}
    /\ (meta = RAISE => Undeclared(cls, data) = {})

\* C2 as stated: an input that omits a field with a default or an Optional
\* field gives a record in which that field has its declared default.
C2_OmittedFieldGetsDefault ==
    (op = "load" /\ Loadable(arg.cls, arg.data)) =>
        \A name \in (FieldNames[arg.cls] \ RequiredNames[arg.cls]) \ Keys(arg.data) :
            /\ ret.t = "record"
            /\ HasAttr(ret, name)
            /\ GetAttr(ret, name) = FieldNamed(arg.cls, name).default

\* C2, amended: an input that omits a field with a default or an Optional
\* field is loaded without failure; the record holds the declared default
\* in that field, unless __post_init__ renames the field: the record has no
\* attribute of a renamed name (VehicleType.name, WorldManufacturerIndex.id
\* and .name), and the attribute it is renamed to (vehicle_type,
\* manufacturer_id, manufacturer) holds the value given under the renamed
\* name when that is not None, else its own value or default.
C2_OmittedFieldGetsDefaultUnlessRenamed ==
    (op = "load" /\ Loadable(arg.cls, arg.data)) =>
        /\ ret.t = "record"
        /\ \A name \in (FieldNames[arg.cls] \ RequiredNames[arg.cls]) \ Keys(arg.data) :
              LET given(k) == IF HasKey(arg.data, k) THEN GetItem(arg.data, k) ELSE None
              IN IF name \in DOMAIN Renamed(arg.cls)
                 THEN ~HasAttr(ret, name)
                 ELSE IF name \in RenameTargets(arg.cls)
                 THEN \E k \in DOMAIN Renamed(arg.cls) :
                         /\ Renamed(arg.cls)[k] = name
                         /\ GetAttr(ret, name) =
                               IF given(k) # None THEN given(k)
                               ELSE FieldNamed(arg.cls, name).default
                 ELSE /\ HasAttr(ret, name)
                      /\ GetAttr(ret, name) = FieldNamed(arg.cls, name).default

C2_Witness ==
    /\ op = "load"
    /\ arg.cls = <<"V","a","r","i","a","b","l","e">>
    /\ ~HasKey(arg.data, <<"g","r","o","u","p","_","n","a","m","e">>)
    /\ Keys(arg.data) = FieldNames[<<"V","a","r","i","a","b","l","e">>] \ {<<"g","r","o","u","p","_","n","a","m","e">>}
    /\ ret.t = "record"
    /\ GetAttr(ret, <<"g","r","o","u","p","_","n","a","m","e">>) = None

\* C3: a mapping that lacks a field declared without default fails with a
\* validation error under both policies, and a list method of TypedClient
\* in which the mapping of any one element fails raises: nothing is caught,
\* no partial list is returned.
C3_MissingRequiredFieldRaises ==
    /\ (op = "load" /\ MissingRequired(arg.cls, arg.data) # {}) =>
          ret = Raise(<<"V","a","l","i","d","a","t","i","o","n","E","r","r","o","r">>)
    /\ (op \in ElementwiseOps /\ arg.status_code = OK) =>
          \A cased \in {Cased(arg)} :
             (\E i \in 1..Len(cased) : MissingRequired(ClassOf[op], cased[i]) # {})
                 => ret = Raise(<<"V","a","l","i","d","a","t","i","o","n","E","r","r","o","r">>)
    /\ (op = "TypedClient.get_manufacturer_details" /\ arg.status_code = OK) =>
          \A cased \in {Cased(arg)} :
             (\E i \in 1..Len(cased) : MissingRequired(<<"M","a","n","u","f","a","c","t","u","r","e","r","D","e","t","a","i","l">>, cased[i]) # {})
                 => IsRaise(ret)

C3_Witness ==
    /\ op = "TypedClient.get_all_makes"
    /\ arg.status_code = OK
    /\ \E cased \in {Cased(arg)} :
          /\ Len(cased) = 2
          /\ MissingRequired(<<"M","a","k","e">>, cased[1]) = {}
          /\ MissingRequired(<<"M","a","k","e">>, cased[2]) = {<<"m","a","k","e","_","i","d">>}
    /\ ret = Raise(<<"V","a","l","i","d","a","t","i","o","n","E","r","r","o","r">>)

\* C9: under RAISE a list method gives one record per element of Results,
\* in order, its fields holding the upstream values: get_all_makes turns
\* Make_ID and Make_Name into make_id and make, get_manufacturer_details
\* turns Mfr_ID, Mfr_Name and Mfr_CommonName into manufacturer_id,
\* manufacturer and manufacturer_common_name.
C9_ListMethodsReturnRecords ==
    (op \in DOMAIN ClassOf /\ meta = RAISE /\ arg.status_code = OK) =>
        LET results == GetItem(arg.body, <<"R","e","s","u","l","t","s">>).items
            holds(record, name, element, key) ==
                HasAttr(record, name) /\ GetAttr(record, name) = GetItem(element, key)
        IN /\ (op = "TypedClient.get_all_makes"
                  /\ \A i \in 1..Len(results) : Keys(results[i]) = {<<"M","a","k","e","_","I","D">>, <<"M","a","k","e","_","N","a","m","e">>}) =>
                 /\ ret.t = "list"
                 /\ Len(ret.items) = Len(results)
                 /\ \A i \in 1..Len(results) :
                       /\ ret.items[i].s = <<"M","a","k","e">>
                       /\ holds(ret.items[i], <<"m","a","k","e","_","i","d">>, results[i], <<"M","a","k","e","_","I","D">>)
                       /\ holds(ret.items[i], <<"m","a","k","e">>, results[i], <<"M","a","k","e","_","N","a","m","e">>)
           /\ (op = "TypedClient.get_manufacturer_details"
                  /\ \A i \in 1..Len(results) :
                        {<<"M","f","r","_","I","D">>, <<"M","f","r","_","N","a","m","e">>, <<"M","f","r","_","C","o","m","m","o","n","N","a","m","e">>, <<"D","B","A","s">>} \subseteq Keys(results[i])) =>
                 /\ ret.t = "list"
                 /\ Len(ret.items) = Len(results)
                 /\ \A i \in 1..Len(results) :
                       /\ ret.items[i].s = <<"M","a","n","u","f","a","c","t","u","r","e","r","D","e","t","a","i","l">>
                       /\ holds(ret.items[i], <<"m","a","n","u","f","a","c","t","u","r","e","r","_","i","d">>, results[i], <<"M","f","r","_","I","D">>)
                       /\ holds(ret.items[i], <<"m","a","n","u","f","a","c","t","u","r","e","r">>, results[i], <<"M","f","r","_","N","a","m","e">>)
                       /\ holds(ret.items[i], <<"m","a","n","u","f","a","c","t","u","r","e","r","_","c","o","m","m","o","n","_","n","a","m","e">>, results[i],
                                <<"M","f","r","_","C","o","m","m","o","n","N","a","m","e">>)

-----------------------------------------------------------------------------
(* The end-to-end scenario of a manufacturer *)

\* C8: {Mfr_ID, Mfr_Name, Mfr_CommonName} is canonicalised to
\* {ManufacturerId, Manufacturer, ManufacturerCommonName}, cased to
\* {manufacturer_id, manufacturer, manufacturer_common_name} and typed into
\* a Manufacturer that holds the three values and equals any Manufacturer
\* built from them.
C8_ManufacturerEndToEnd ==
    (op \in Canonicalisers /\ arg \in ManufacturerRaws) =>
        LET id == GetItem(arg, <<"M","f","r","_","I","D">>)
            name == GetItem(arg, <<"M","f","r","_","N","a","m","e">>)
            common_name == GetItem(arg, <<"M","f","r","_","C","o","m","m","o","n","N","a","m","e">>)
            cased == snake_case(ret)
            built == Record(<<"M","a","n","u","f","a","c","t","u","r","e","r">>,
                            <<Entry(<<"m","a","n","u","f","a","c","t","u","r","e","r","_","i","d">>, id), Entry(<<"m","a","n","u","f","a","c","t","u","r","e","r">>, name),
                              Entry(<<"m","a","n","u","f","a","c","t","u","r","e","r","_","c","o","m","m","o","n","_","n","a","m","e">>, common_name)>>)
        IN /\ ValueEq(ret, Dict(<<Entry(<<"M","a","n","u","f","a","c","t","u","r","e","r","I","d">>, id), Entry(<<"M","a","n","u","f","a","c","t","u","r","e","r">>, name),
                                  Entry(<<"M","a","n","u","f","a","c","t","u","r","e","r","C","o","m","m","o","n","N","a","m","e">>, common_name)>>))
           /\ ValueEq(cased, Dict(<<Entry(<<"m","a","n","u","f","a","c","t","u","r","e","r","_","i","d">>, id), Entry(<<"m","a","n","u","f","a","c","t","u","r","e","r">>, name),
                                    Entry(<<"m","a","n","u","f","a","c","t","u","r","e","r","_","c","o","m","m","o","n","_","n","a","m","e">>, common_name)>>))
           /\ \A unknown \in {EXCLUDE, RAISE} :
                 ValueEq(load(<<"M","a","n","u","f","a","c","t","u","r","e","r">>, unknown, cased), built)

-----------------------------------------------------------------------------
(* Properties of the error classifier *)

\* C10: a response with status 400 and the body {message: "The request is
\* invalid.", messageDetail: "The parameters dictionary ..."} makes
\* handle_error_response raise InvalidParameters, with a detail that begins
\* "The parameters dictionary".
C10_InvalidParameters ==
    (op = "handle_error_response" /\ arg.status_code = 400 /\ arg.body = ParametersDictionary) =>
        /\ ret.t = "raise"
        /\ ret.s = <<"I","n","v","a","l","i","d","P","a","r","a","m","e","t","e","r","s">>
        /\ ret.detail.t = "scalar"
        /\ startswith(ret.detail.s, <<"T","h","e"," ","p","a","r","a","m","e","t","e","r","s"," ","d","i","c","t","i","o","n","a","r","y">>)

\* C11: a response with status 404 makes handle_error_response raise
\* MethodNotFound, whatever its body.
C11_MethodNotFound ==
    (op = "handle_error_response" /\ arg.status_code = 404) =>
        ret.t = "raise" /\ ret.s = <<"M","e","t","h","o","d","N","o","t","F","o","u","n","d">>

\* the messageDetail of the body of resp begins "The parameters dictionary"
DetailOfParameters(resp) ==
    /\ resp.body.t = "dict"
    /\ HasKey(resp.body, <<"m","e","s","s","a","g","e","D","e","t","a","i","l">>)
    /\ GetItem(resp.body, <<"m","e","s","s","a","g","e","D","e","t","a","i","l">>).t = "scalar"
    /\ startswith(GetItem(resp.body, <<"m","e","s","s","a","g","e","D","e","t","a","i","l">>).s, <<"T","h","e"," ","p","a","r","a","m","e","t","e","r","s"," ","d","i","c","t","i","o","n","a","r","y">>)

\* C12: for a failed response whose detail does not begin "The parameters
\* dictionary", handle_error_response raises the error its status code
\* alone selects: 400 InvalidRequest, 404 MethodNotFound, 429
\* TooManyRequests, 500 InternalError, 503 ServiceUnavailable, any other
\* status VPICError.
C12_KindByStatusAlone ==
    (op = "handle_error_response" /\ ~DetailOfParameters(arg)) =>
        /\ ret.t = "raise"
        /\ ret.s = IF arg.status_code \in DOMAIN HTTP_ERRORS
                   THEN HTTP_ERRORS[arg.status_code] ELSE <<"V","P","I","C","E","r","r","o","r">>

VPICErrors ==
    {HTTP_ERRORS[code] : code \in DOMAIN HTTP_ERRORS} \cup {<<"V","P","I","C","E","r","r","o","r">>, <<"I","n","v","a","l","i","d","P","a","r","a","m","e","t","e","r","s">>}

\* C13: handle_error_response raises one of the classified errors and
\* nothing else, whatever the body and the content-type of the response;
\* for a body that is no JSON the message is the default and no detail is
\* taken from it.
C13_NoSecondaryException ==
    op = "handle_error_response" =>
        /\ ret.t = "raise"
        /\ ret.s \in VPICErrors
        /\ arg.body.t = "text" =>
              ret.message = VPICError_message /\ ~truthy(ret.detail)

-----------------------------------------------------------------------------
(* Properties of the canonicalisers, continued *)

\* C15: an upstream key gets the same canonical name at every depth and in
\* every table of the program: transforms.standardize,
\* ClientBase._standardize_variable_names and
\* utils.standardize_variable_names give the same result for the same
\* object.
C15_TablesAgree ==
    op \in Canonicalisers \cup {"standardize_variable_names"} =>
        /\ ValueEq(ret, standardize(arg))
        /\ ValueEq(ret, _standardize_variable_names(arg))
        /\ ValueEq(ret, standardize_variable_names(arg))

\* the canonicaliser that ran
Canonicalise(x) ==
    IF op = "standardize" THEN standardize(x) ELSE _standardize_variable_names(x)

\* C16 as stated: each entry of a mapping is in the canonicalised mapping
\* under the canonical name of its key, with its canonicalised value, and
\* the canonicalised mapping has as many entries as the mapping.
C16_EntriesPreserved ==
    (op \in Canonicalisers /\ arg.t = "dict") =>
        /\ ret.t = "dict"
        /\ Len(ret.items) = Len(arg.items)
        /\ \A i \in 1..Len(arg.items) :
              /\ HasKey(ret, GetOrKey(TableOf(op), arg.items[i].k))
              /\ GetItem(ret, GetOrKey(TableOf(op), arg.items[i].k))
                    = Canonicalise(arg.items[i].v)

\* C16, amended: the canonicalised mapping has one entry for each canonical
\* name of a key of the mapping, and that entry holds the canonicalised
\* value of the last entry of the mapping with that canonical name; it has
\* as many entries as the mapping when no two keys of the mapping share a
\* canonical name, and fewer otherwise, the values of the earlier entries
\* being dropped.
C16_OneEntryPerCanonicalName ==
    (op \in Canonicalisers /\ arg.t = "dict") =>
        LET name(i) == GetOrKey(TableOf(op), arg.items[i].k)
            n == Len(arg.items)
            shared == \E i, j \in 1..n : i # j /\ name(i) = name(j)
        IN /\ ret.t = "dict"
           /\ Keys(ret) = {name(i) : i \in 1..n}
           /\ Len(ret.items) = Cardinality({name(i) : i \in 1..n})
           /\ \A i \in 1..n :
                 (\A j \in (i+1)..n : name(j) # name(i)) =>
                    GetItem(ret, name(i)) = Canonicalise(arg.items[i].v)
           /\ IF shared THEN Len(ret.items) < n ELSE Len(ret.items) = n

C16_Witness ==
    /\ op = "_standardize_variable_names"
    /\ arg = Dict(<<Entry(<<"M","f","r","_","N","a","m","e">>, Value1), Entry(<<"M","f","r","N","a","m","e">>, Value2)>>)
    /\ ret = Dict(<<Entry(<<"M","a","n","u","f","a","c","t","u","r","e","r","N","a","m","e">>, Value2)>>)

-----------------------------------------------------------------------------
(* Properties of the renaming record types *)

\* a mapping for VehicleType with name and without vehicle_type
NamedVehicleType(data) ==
    /\ data.t = "dict"
    /\ HasKey(data, <<"n","a","m","e">>)
    /\ ~HasKey(data, <<"v","e","h","i","c","l","e","_","t","y","p","e">>)

\* record is the VehicleType of data, named by data's name
NamedByName(record, data) ==
    /\ record.t = "record"
    /\ record.s = <<"V","e","h","i","c","l","e","T","y","p","e">>
    /\ HasAttr(record, <<"v","e","h","i","c","l","e","_","t","y","p","e">>)
    /\ GetAttr(record, <<"v","e","h","i","c","l","e","_","t","y","p","e">>) = GetItem(data, <<"n","a","m","e">>)
    /\ ~HasAttr(record, <<"n","a","m","e">>)

\* C17: a valid mapping for VehicleType that holds name and no vehicle_type
\* gives a record whose vehicle_type is the value of name and that has no
\* attribute name; so it is for load called on the mapping, for the elements
\* get_vehicle_types_for_make returns, and for the vehicle types nested in
\* the ManufacturerDetail records get_manufacturer_details returns.
C17_VehicleTypeNamedByName ==
    /\ (op = "load" /\ arg.cls = <<"V","e","h","i","c","l","e","T","y","p","e">> /\ NamedVehicleType(arg.data)
           /\ Loadable(arg.cls, arg.data)) =>
          NamedByName(ret, arg.data)
    /\ (op = "TypedClient.get_vehicle_types_for_make" /\ arg.status_code = OK) =>
          \A cased \in {Cased(arg)} :
             (\A i \in 1..Len(cased) : Loadable(<<"V","e","h","i","c","l","e","T","y","p","e">>, cased[i])) =>
                /\ ret.t = "list"
                /\ Len(ret.items) = Len(cased)
                /\ \A i \in 1..Len(cased) :
                      NamedVehicleType(cased[i]) => NamedByName(ret.items[i], cased[i])
    /\ (op = "TypedClient.get_manufacturer_details" /\ arg.status_code = OK
           /\ ret.t = "list") =>
          \A cased \in {Cased(arg)} :
             /\ Len(ret.items) = Len(cased)
             /\ \A i \in 1..Len(cased) :
                   \A types \in {GetItem(cased[i], <<"v","e","h","i","c","l","e","_","t","y","p","e","s">>).items},
                      records \in {GetAttr(ret.items[i], <<"v","e","h","i","c","l","e","_","t","y","p","e","s">>).items} :
                      /\ Len(records) = Len(types)
                      /\ \A j \in 1..Len(types) :
                            NamedVehicleType(types[j]) => NamedByName(records[j], types[j])

\* get_manufacturer_details returned a ManufacturerDetail whose nested
\* vehicle type came from {Name, IsPrimary, GVWRFrom, GVWRTo}
C17_Witness ==
    /\ op = "TypedClient.get_manufacturer_details"
    /\ arg = Results(<<ManufacturerDetailElement(<<"M","a","n","u","f","a","c","t","u","r","e","r">>, TRUE)>>)
    /\ ret.t = "list"
    /\ Len(ret.items) = 1
    /\ \E records \in {GetAttr(ret.items[1], <<"v","e","h","i","c","l","e","_","t","y","p","e","s">>).items} :
          /\ Len(records) = 1
          /\ GetAttr(records[1], <<"v","e","h","i","c","l","e","_","t","y","p","e">>) = Scalar(<<"P","a","s","s","e","n","g","e","r"," ","C","a","r">>)
          /\ GetAttr(records[1], <<"i","s","_","p","r","i","m","a","r","y">>) = Scalar(<<"t","r","u","e">>)
          /\ ~HasAttr(records[1], <<"n","a","m","e">>)

\* record is the WorldManufacturerIndex of data: id and name are gone,
\* manufacturer_id and manufacturer hold the values of id and name, or,
\* where data gives none, what data gives under their own names
RenamedIndex(record, data) ==
    LET given(k) == IF HasKey(data, k) THEN GetItem(data, k) ELSE None
        kept(from, to) ==
            GetAttr(record, to) = IF given(from) # None THEN given(from) ELSE given(to)
    IN /\ record.t = "record"
       /\ record.s = <<"W","o","r","l","d","M","a","n","u","f","a","c","t","u","r","e","r","I","n","d","e","x">>
       /\ ~HasAttr(record, <<"i","d">>)
       /\ ~HasAttr(record, <<"n","a","m","e">>)
       /\ kept(<<"i","d">>, <<"m","a","n","u","f","a","c","t","u","r","e","r","_","i","d">>)
       /\ kept(<<"n","a","m","e">>, <<"m","a","n","u","f","a","c","t","u","r","e","r">>)

\* C18: a WorldManufacturerIndex built from a valid mapping has no id and no
\* name; its manufacturer_id is the id of the mapping and its manufacturer
\* the name of the mapping, and where the mapping gives no id (no name, or
\* None) the value the mapping gives under manufacturer_id (manufacturer),
\* else the default None.  So it is for load called on the mapping and for
\* the records get_wmis_for_manufacturer returns.
C18_IndexRenamedAtConstruction ==
    /\ (op = "load" /\ arg.cls = <<"W","o","r","l","d","M","a","n","u","f","a","c","t","u","r","e","r","I","n","d","e","x">> /\ Loadable(arg.cls, arg.data)) =>
          RenamedIndex(ret, arg.data)
    /\ (op = "TypedClient.get_wmis_for_manufacturer" /\ arg # None /\ arg.status_code = OK) =>
          \A cased \in {Cased(arg)} :
             (\A i \in 1..Len(cased) : Loadable(<<"W","o","r","l","d","M","a","n","u","f","a","c","t","u","r","e","r","I","n","d","e","x">>, cased[i])) =>
                /\ ret.t = "list"
                /\ Len(ret.items) = Len(cased)
                /\ \A i \in 1..Len(cased) : RenamedIndex(ret.items[i], cased[i])

\* get_wmis_for_manufacturer built a record from an element with Id 987 and
\* Name HONDA and neither ManufacturerId nor Manufacturer
C18_Witness ==
    /\ op = "TypedClient.get_wmis_for_manufacturer"
    /\ arg # None
    /\ arg.status_code = OK
    /\ \E cased \in {Cased(arg)} :
          /\ Len(cased) = 1
          /\ HasKey(cased[1], <<"i","d">>)
          /\ HasKey(cased[1], <<"n","a","m","e">>)
          /\ ~HasKey(cased[1], <<"m","a","n","u","f","a","c","t","u","r","e","r","_","i","d">>)
          /\ ~HasKey(cased[1], <<"m","a","n","u","f","a","c","t","u","r","e","r">>)
    /\ ret.t = "list"
    /\ Len(ret.items) = 1
    /\ GetAttr(ret.items[1], <<"m","a","n","u","f","a","c","t","u","r","e","r","_","i","d">>) = Scalar(<<"9","8","7">>)
    /\ GetAttr(ret.items[1], <<"m","a","n","u","f","a","c","t","u","r","e","r">>) = Value2
    /\ ~HasAttr(ret.items[1], <<"i","d">>)
    /\ ~HasAttr(ret.items[1], <<"n","a","m","e">>)

-----------------------------------------------------------------------------
(* Properties of the records *)

\* C19: a record the typed mapper returned, of whatever type, refuses the
\* assignment and the deletion of a field, and two records of one type built
\* from the same mapping compare equal without an error.
C19_RecordsImmutableEqualByValue ==
    /\ op \in {"setattr", "delattr"} => ret = Raise(<<"F","r","o","z","e","n","I","n","s","t","a","n","c","e","E","r","r","o","r">>)
    /\ op = "__eq__" => ret = Scalar(<<"T","r","u","e">>)

-----------------------------------------------------------------------------
(* Properties of the untyped client *)

C21_StandardizeToggle ==
    LET returns(resp, first) ==
            \A results \in {GetItem(resp.body, <<"R","e","s","u","l","t","s">>)} :
               \A payload \in {IF standardize_variables
                               THEN _standardize_variable_names(results) ELSE results} :
                  IF ~first THEN ret = payload
                  ELSE IF Len(payload.items) = 0 THEN ret = Raise(<<"I","n","d","e","x","E","r","r","o","r">>)
                  ELSE ret = payload.items[1]
    IN /\ (op = "Client.get_all_makes" /\ arg.status_code = OK) => returns(arg, FALSE)
       /\ (op = "Client.decode_vin" /\ arg.resp # None /\ arg.resp.status_code = OK) =>
             returns(arg.resp, arg.flatten)
       /\ (op = "Client.decode_wmi" /\ arg.resp # None /\ arg.resp.status_code = OK) =>
             returns(arg.resp, TRUE)
       /\ (op = "Client.decode_vin_batch" /\ arg.resp # None /\ arg.resp.status_code = OK) =>
             returns(arg.resp, FALSE)

\* a Client constructed with False answered decode_vin_batch (a POST) with
\* the keys of the response, MakeID and ModelID among them
C21_Witness ==
    /\ op = "Client.decode_vin_batch"
    /\ ~standardize_variables
    /\ arg.resp # None
    /\ arg.resp.status_code = OK
    /\ ret.t = "list"
    /\ Len(ret.items) = 1
    /\ Keys(ret.items[1]) = {<<"M","a","k","e">>, <<"M","a","k","e","I","D">>, <<"M","o","d","e","l","I","D">>}
    /\ ret = GetItem(arg.resp.body, <<"R","e","s","u","l","t","s">>)

-----------------------------------------------------------------------------
(* Properties of the typed client *)

-----------------------------------------------------------------------------
(* Properties of snake_case *)

\* C23: when snake_case returns, the result holds, under the new key of each
\* entry of the mapping (the last entry, where several have one new key), for
\* a value that is a list of mappings the list of as many elements, element
\* j being snake_case of element j of the value, and for a scalar value
\* (None included) that very value; and snake_case does return when every
\* value is a scalar or a list of mappings with scalar values.
C23_ListsCasedScalarsPassed ==
    (op = "snake_case" /\ arg.t = "dict") =>
        LET n == Len(arg.items)
            last(i) == \A j \in (i + 1)..n : snake_key(arg.items[j].k) # snake_key(arg.items[i].k)
            scalar(v) == v.t \in {"scalar", "none"}
            flat(v) == v.t = "dict" /\ \A m \in 1..Len(v.items) :
                                          v.items[m].k # <<>> /\ scalar(v.items[m].v)
            mappings(v) == v.t = "list" /\ \A j \in 1..Len(v.items) : flat(v.items[j])
        IN /\ (\A i \in 1..n : arg.items[i].k # <<>>
                                 /\ (scalar(arg.items[i].v) \/ mappings(arg.items[i].v))) =>
                 ret.t = "dict"
           /\ ret.t = "dict" =>
                 \A i \in 1..n :
                    last(i) =>
                       \A value \in {arg.items[i].v}, new \in {GetItem(ret, snake_key(arg.items[i].k))} :
                          /\ scalar(value) => new = value
                          /\ value.t = "list" =>
                                /\ new.t = "list"
                                /\ Len(new.items) = Len(value.items)
                                /\ \A j \in 1..Len(value.items) :
                                      new.items[j] = snake_case(value.items[j])

\* snake_case cased the two mappings of a list in their order and passed
\* the scalar beside it
C23_Witness ==
    /\ op = "snake_case"
    /\ arg = Dict(<<Entry(<<"V","e","h","i","c","l","e","T","y","p","e","s">>, List(<<Dict(<<Entry(<<"G","V","W","R","F","r","o","m">>, Value1)>>),
                                                   Dict(<<Entry(<<"N","a","m","e">>, Value1)>>)>>)),
                    Entry(<<"M","f","r","_","N","a","m","e">>, Value2)>>)
    /\ ret = Dict(<<Entry(<<"v","e","h","i","c","l","e","_","t","y","p","e","s">>, List(<<Dict(<<Entry(<<"g","v","w","r","_","f","r","o","m">>, Value1)>>),
                                                    Dict(<<Entry(<<"n","a","m","e">>, Value1)>>)>>)),
                    Entry(<<"m","f","r","_","n","a","m","e">>, Value2)>>)

-----------------------------------------------------------------------------
(* Properties of the arguments of decode_vin *)

\* C25: decode_vin called without vin, with a vin shorter than 6 or longer
\* than 17 characters, or with a model_year below 1981, whichever integer it
\* is, raises ValueError and has made no HTTP request.
C25_DecodeVinRefusesArguments ==
    (op = "Client.decode_vin"
        /\ \/ arg.vin = None
           \/ Len(arg.vin.s) \notin 6..17
           \/ (arg.model_year # None /\ arg.model_year.n < 1981)) =>
        /\ ret = Raise(<<"V","a","l","u","e","E","r","r","o","r">>)
        /\ http_calls = 0

-----------------------------------------------------------------------------
(* Properties of the request boundary *)

-----------------------------------------------------------------------------
(* Properties of the keys snake_case leaves *)

\* C27: in the mapping snake_case returns no key has an uppercase letter:
\* no key of the mapping, no key of a mapping that is the value of a key,
\* and no key of a mapping in a list that is the value of a key.
C27_NoUppercaseKeyAtAnyDepth ==
    (op = "snake_case" /\ ret.t = "dict") =>
        LET cased(key) == \A p \in 1..Len(key) : key[p] \notin UPPER
            keys_cased(value) ==
                value.t = "dict" => \A m \in 1..Len(value.items) : cased(value.items[m].k)
        IN \A i \in 1..Len(ret.items) :
              /\ cased(ret.items[i].k)
              /\ keys_cased(ret.items[i].v)
              /\ ret.items[i].v.t = "list" =>
                    \A j \in 1..Len(ret.items[i].v.items) : keys_cased(ret.items[i].v.items[j])

-----------------------------------------------------------------------------
(* Properties of sequences of calls *)

-----------------------------------------------------------------------------
(* Idempotence of the canonicalisers *)

\* C29: no canonical name of a lookup table is itself a key of that table,
\* and what standardize or _standardize_variable_names returned is returned
\* unchanged when the same canonicaliser is applied to it again.
C29_CanonicaliseIdempotent ==
    /\ \A name \in Canonicalisers : \A table \in {TableOf(name)} :
          \A key \in DOMAIN table : table[key] \notin DOMAIN table
    /\ op \in Canonicalisers => Canonicalise(ret) = ret

\* a canonicaliser renamed a key of its table, at the top level of a mapping
\* that also holds a list, and returns its own output unchanged
C29_Witness ==
    /\ op \in Canonicalisers
    /\ arg.t = "dict"
    /\ \E j \in 1..Len(arg.items) : arg.items[j].k \in DOMAIN TableOf(op)
    /\ \E j \in 1..Len(arg.items) : arg.items[j].v.t = "list"
    /\ ret # arg
    /\ Canonicalise(ret) = ret


-----------------------------------------------------------------------------
(* Totality of snake_case *)

\* C30: for a mapping with non-empty keys whose values are scalars, lists
\* of mappings or lists of scalars, snake_case raises nothing and returns a
\* mapping with exactly one entry for each distinct transformed key of the
\* mapping.
C30_SnakeCaseTotal ==
    LET scalar(value) == value.t \in {"scalar", "none"}
        response_value(value) ==
            \/ scalar(value)
            \/ /\ value.t = "list"
               /\ \/ \A j \in 1..Len(value.items) : value.items[j].t = "dict"
                  \/ \A j \in 1..Len(value.items) : scalar(value.items[j])
    IN (/\ op = "snake_case"
        /\ arg.t = "dict"
        /\ \A i \in 1..Len(arg.items) :
              /\ arg.items[i].k # <<>>
              /\ response_value(arg.items[i].v)) =>
           /\ ret.t = "dict"
           /\ {ret.items[i].k : i \in 1..Len(ret.items)} =
                 {snake_key(arg.items[i].k) : i \in 1..Len(arg.items)}
           /\ \A i, j \in 1..Len(ret.items) : ret.items[i].k = ret.items[j].k => i = j


=============================================================================
